---- MODULE Spec2Model ----
(***************************************************************************)
(* MOSEE: the Valuation Range & Investment Verdict Engine and the          *)
(* dashboard that displays its records.                                    *)
(*                                                                         *)
(* The Python engine (MOSEE/valuation_range.py, mosee_intelligence.py,     *)
(* scripts/run_mosee.py) is not part of src/.  What src/ holds of it is    *)
(* the Python printed in src/docs (the ValuationRange class, the           *)
(* InvestmentVerdict enum) and the TypeScript types of the dashboard;      *)
(* those are modelled from the source.  The decision matrix, the           *)
(* INSUFFICIENT DATA guard, range construction, composite aggregation and  *)
(* the batch run are modelled from spec.md sections 4.2-4.6, 5 and 7.      *)
(*                                                                         *)
(* Python floats are IEEE-754 doubles: quotients and products are rounded  *)
(* to 53 significant bits, round-half-to-even, exactly as CPython does.    *)
(***************************************************************************)
EXTENDS Integers, Sequences, FiniteSets, TLC

VARIABLES
    inp,        \* arguments of generate_mosee_intelligence for one ticker
    report,     \* the MOSEEIntelligenceReport it returns (Idle before the call)
    raw,        \* one valuation method's raw scenario computation
    range,      \* the ValuationRange constructed from raw (Idle before)
    methods,    \* per valuation method: its constructed range or Missing
    composite,  \* the CompositeValuationRange built from methods (Idle before)
    universe,   \* the batch run's input universe: "unread", "readable", "unreadable"
    metrics,    \* per ticker: the inputs its phase-1 task analyses
    task,       \* per ticker: the phase-1 task's state
    records,    \* per ticker: the StockAnalysisRecord produced (Idle before)
    phase,      \* the batch run's position
    pickList,   \* the ordered pick list the ranker produced
    rows,       \* the rows of mosee_stock_analyses at the latest analysis date
    listing,    \* the rows a query of the dashboard returned (Idle before)
    candidates, \* the universe handed to the Magic Formula ranking, in input order
    ranks,      \* per ticker: its Magic Formula ranks (Idle before)
    lens,       \* the five lens scores of one ticker
    style,      \* the weights in force for the composite score
    score,      \* the QualityScore computed (Idle before)
    runs,       \* per batch run: its configuration, tasks, records and pick list
    db,         \* the rows stored in mosee_stock_analyses
    view,       \* the dashboard page being rendered: its position and what it fetched
    graham      \* the Graham lens: its metrics and the LensResult it returned

intelligenceVars == <<inp, report>>
rangeVars        == <<raw, range>>
compositeVars    == <<methods, composite>>
batchVars        == <<universe, metrics, task, records, phase, pickList>>
picksVars        == <<rows, listing>>
rankVars         == <<candidates, ranks>>
scoreVars        == <<lens, style, score>>

restVars         == <<runs, db, view, graham>>

vars == <<intelligenceVars, rangeVars, compositeVars, batchVars,
          picksVars, rankVars, scoreVars, restVars>>

\* Python's None, and a present value v, for an Optional number or double
None == <<>>
Some(v) == <<v>>
Val(x) == x[1]

\* a variable no operation has written yet
Idle == [status |-> "none"]

(***************************************************************************)
(* IEEE-754 double arithmetic.  A double is [s, e, m]: sign s, exponent e  *)
(* and the MantissaBits significant bits m (most significant first,        *)
(* m[1] = 1), with value s * 1.m[2..] * 2^e.                               *)
(***************************************************************************)
MantissaBits == 53

Abs(x) == IF x < 0 THEN -x ELSE x
Sgn(x) == IF x < 0 THEN -1 ELSE 1

Zero == [s |-> 1, e |-> 0, m |-> <<>>]

\* p, c > 0 scaled by powers of two so that c <= p < 2c; p / c changes by 2^e
RECURSIVE Normalize(_, _, _)
Normalize(p, c, e) ==
    IF p >= 2 * c THEN Normalize(p, 2 * c, e + 1)
    ELSE IF p < c THEN Normalize(2 * p, c, e - 1)
    ELSE [p |-> p, c |-> c, e |-> e]

\* 2^i mod c
RECURSIVE Pow2Mod(_, _)
Pow2Mod(i, c) ==
    IF i = 0 THEN 1 % c
    ELSE LET h == Pow2Mod(i \div 2, c)
         IN  (h * h * (IF i % 2 = 1 THEN 2 ELSE 1)) % c

\* bits with one added in the last place (all zero when it carries out)
Increment(bits) ==
    IF \A i \in 1..MantissaBits : bits[i] = 1
    THEN [i \in 1..MantissaBits |-> 0]
    ELSE LET k == CHOOSE i \in 1..MantissaBits :
                     bits[i] = 0 /\ \A j \in (i + 1)..MantissaBits : bits[j] = 1
         IN  [i \in 1..MantissaBits |->
                 IF i < k THEN bits[i] ELSE IF i = k THEN 1 ELSE 0]

AllZero(bits) == \A i \in 1..Len(bits) : bits[i] = 0

\* round half to even on the guard bit and the sticky rest
RoundNearestEven(bits, guard, sticky, e, sign) ==
    LET up  == guard = 1 /\ (sticky \/ bits[MantissaBits] = 1)
        inc == Increment(bits)
    IN  IF ~up THEN [s |-> sign, e |-> e, m |-> bits]
        ELSE IF AllZero(inc)
             THEN [s |-> sign, e |-> e + 1,
                   m |-> [i \in 1..MantissaBits |-> IF i = 1 THEN 1 ELSE 0]]
             ELSE [s |-> sign, e |-> e, m |-> inc]

\* p / c for integers p and c # 0, correctly rounded: long division of the
\* normalized operands, bit i of the quotient read off (p * 2^(i-2)) mod c
Fdiv(p, c) ==
    IF p = 0 THEN Zero
    ELSE LET n    == Normalize(Abs(p), Abs(c), 0)
             bits == [i \in 1..MantissaBits |->
                        IF i = 1 THEN 1
                        ELSE (2 * ((n.p * Pow2Mod(i - 2, n.c)) % n.c)) \div n.c]
             rem  == (n.p * Pow2Mod(MantissaBits - 1, n.c)) % n.c
             g    == (2 * rem) \div n.c
             rest == (2 * rem) % n.c
         IN  RoundNearestEven(bits, g, rest # 0, n.e, Sgn(p) * Sgn(c))

\* The product of an integer and a mantissa, in limbs of LimbBits bits,
\* least significant first.
LimbBits == 13
Limbs    == 6
LimbBase == 2 ^ LimbBits

\* bit k (0 = least significant) of a mantissa
MantissaBit(m, k) == IF k < MantissaBits THEN m[MantissaBits - k] ELSE 0

RECURSIVE LimbValue(_, _, _)
LimbValue(m, l, t) ==
    IF t = LimbBits THEN 0
    ELSE MantissaBit(m, LimbBits * l + t) + 2 * LimbValue(m, l, t + 1)

RECURSIVE MulLimbs(_, _, _, _)
MulLimbs(m, c, l, carry) ==
    IF l = Limbs THEN <<>>
    ELSE LET d == LimbValue(m, l, 0) * c + carry
         IN  <<d % LimbBase>> \o MulLimbs(m, c, l + 1, d \div LimbBase)

\* bit k (0 = least significant) of a number in limbs
LimbBit(limbs, k) == (limbs[(k \div LimbBits) + 1] \div (2 ^ (k % LimbBits))) % 2

\* c * x for an integer c and a double x, correctly rounded
Fmul(c, x) ==
    IF c = 0 \/ x = Zero THEN Zero
    ELSE LET prod == MulLimbs(x.m, Abs(c), 0, 0)
             W    == Limbs * LimbBits
             L    == 1 + CHOOSE k \in 0..(W - 1) :
                            LimbBit(prod, k) = 1
                            /\ \A j \in (k + 1)..(W - 1) : LimbBit(prod, j) = 0
             top  == [i \in 1..MantissaBits |-> LimbBit(prod, L - i)]
             g    == IF L > MantissaBits
                     THEN LimbBit(prod, L - MantissaBits - 1) ELSE 0
             st   == \E k \in 0..(L - MantissaBits - 2) : LimbBit(prod, k) = 1
         IN  RoundNearestEven(top, g, st, x.e + (L - MantissaBits), Sgn(c) * x.s)

\* The product of two doubles: the mantissas multiplied limb by limb into
\* WideLimbs limbs, least significant first.
WideLimbs == 9

MantissaLimbs == 5

\* the part of column k of the limb products that comes from limbs i.. of xl
RECURSIVE Column(_, _, _, _)
Column(xl, yl, k, i) ==
    IF i = MantissaLimbs THEN 0
    ELSE (IF k - i >= 0 /\ k - i < MantissaLimbs THEN xl[i + 1] * yl[k - i + 1] ELSE 0)
            + Column(xl, yl, k, i + 1)

RECURSIVE Columns(_, _, _, _)
Columns(xl, yl, k, carry) ==
    IF k = WideLimbs THEN <<>>
    ELSE LET d == Column(xl, yl, k, 0) + carry
         IN  <<d % LimbBase>> \o Columns(xl, yl, k + 1, d \div LimbBase)

\* x * y for doubles x and y, correctly rounded
Fmulf(x, y) ==
    IF x = Zero \/ y = Zero THEN Zero
    ELSE LET xl   == [l \in 1..MantissaLimbs |-> LimbValue(x.m, l - 1, 0)]
             yl   == [l \in 1..MantissaLimbs |-> LimbValue(y.m, l - 1, 0)]
             prod == Columns(xl, yl, 0, 0)
             W    == WideLimbs * LimbBits
             L    == 1 + CHOOSE k \in 0..(W - 1) :
                            LimbBit(prod, k) = 1
                            /\ \A j \in (k + 1)..(W - 1) : LimbBit(prod, j) = 0
             top  == [i \in 1..MantissaBits |-> LimbBit(prod, L - i)]
             g    == LimbBit(prod, L - MantissaBits - 1)
             st   == \E k \in 0..(L - MantissaBits - 2) : LimbBit(prod, k) = 1
         IN  RoundNearestEven(top, g, st, x.e + y.e + (L - 2 * MantissaBits + 1), x.s * y.s)

\* The sum of two doubles >= 0, the operands aligned on the smaller
\* exponent and added in WideLimbs limbs, least significant first.
\* limb l of mantissa m shifted left by d bits, from its bit t on
RECURSIVE ShiftedLimb(_, _, _, _)
ShiftedLimb(m, l, d, t) ==
    IF t = LimbBits THEN 0
    ELSE LET k == LimbBits * l + t - d
         IN  (IF k >= 0 /\ k < MantissaBits THEN m[MantissaBits - k] ELSE 0)
                + 2 * ShiftedLimb(m, l, d, t + 1)

RECURSIVE AddWithCarry(_, _, _, _, _)
AddWithCarry(hi, lo, d, l, carry) ==
    IF l = WideLimbs THEN <<>>
    ELSE LET t == ShiftedLimb(hi, l, d, 0) + ShiftedLimb(lo, l, 0, 0) + carry
         IN  <<t % LimbBase>> \o AddWithCarry(hi, lo, d, l + 1, t \div LimbBase)

\* x + y for doubles x, y >= 0, correctly rounded
Fadd(x, y) ==
    IF x = Zero THEN y
    ELSE IF y = Zero THEN x
    ELSE LET hi == IF x.e >= y.e THEN x ELSE y
             lo == IF x.e >= y.e THEN y ELSE x
             d  == hi.e - lo.e
         IN  IF d > MantissaBits + 1 THEN hi
             ELSE LET total == AddWithCarry(hi.m, lo.m, d, 0, 0)
                      W     == WideLimbs * LimbBits
                      L     == 1 + CHOOSE k \in 0..(W - 1) :
                                     LimbBit(total, k) = 1
                                     /\ \A j \in (k + 1)..(W - 1) : LimbBit(total, j) = 0
                      top   == [i \in 1..MantissaBits |-> LimbBit(total, L - i)]
                      g     == LimbBit(total, L - MantissaBits - 1)
                      st    == \E k \in 0..(L - MantissaBits - 2) : LimbBit(total, k) = 1
                  IN  RoundNearestEven(top, IF L > MantissaBits THEN g ELSE 0,
                                       st, lo.e + (L - MantissaBits), 1)

BitsLess(a, b) ==
    \E i \in 1..MantissaBits :
        a[i] < b[i] /\ \A j \in 1..(i - 1) : a[j] = b[j]

MagLess(x, y) ==
    IF y = Zero THEN FALSE
    ELSE IF x = Zero THEN TRUE
    ELSE IF x.e # y.e THEN x.e < y.e
    ELSE BitsLess(x.m, y.m)

Flt(x, y) ==
    IF x = Zero /\ y = Zero THEN FALSE
    ELSE IF x = Zero THEN y.s = 1
    ELSE IF y = Zero THEN x.s = -1
    ELSE IF x.s # y.s THEN x.s < y.s
    ELSE IF x.s = 1 THEN MagLess(x, y) ELSE MagLess(y, x)

Fle(x, y) == x = y \/ Flt(x, y)

\* an integer as a double (exact for the magnitudes used here)
FromInt(n) == Fdiv(n, 1)

\* a decimal literal h/100, such as 0.7, as Python parses it
Hundredths(h) == Fdiv(h, 100)

(***************************************************************************)
(* Verdicts.                                                               *)
(***************************************************************************)
\* the enum's member names used where its values belong
InvestmentVerdictByName ==
    [STRONG_BUY        |-> "STRONG_BUY",
     BUY               |-> "BUY",
     ACCUMULATE        |-> "ACCUMULATE",
     HOLD              |-> "HOLD",
     WATCHLIST         |-> "WATCHLIST",
     REDUCE            |-> "REDUCE",
     SELL              |-> "SELL",
     AVOID             |-> "AVOID",
     INSUFFICIENT_DATA |-> "INSUFFICIENT_DATA"]

\* class InvestmentVerdict(Enum): member name |-> value
InvestmentVerdict ==
    [STRONG_BUY        |-> "STRONG BUY",
     BUY               |-> "BUY",
     ACCUMULATE        |-> "ACCUMULATE",
     HOLD              |-> "HOLD",
     WATCHLIST         |-> "WATCHLIST",
     REDUCE            |-> "REDUCE",
     SELL              |-> "SELL",
     AVOID             |-> "AVOID",
     INSUFFICIENT_DATA |-> "INSUFFICIENT DATA"]

\* export type Verdict: the values the dashboard accepts
Verdict ==
    {"STRONG BUY", "BUY", "ACCUMULATE", "HOLD", "WATCHLIST",
     "REDUCE", "SELL", "AVOID", "INSUFFICIENT DATA"}

(***************************************************************************)
(* The margin-of-safety gate: the methods of class ValuationRange.         *)
(* Prices and values are Optional integers (exact doubles); required_mos   *)
(* is given in hundredths, 70 for the literal 0.7.  A call either returns  *)
(* a value or raises.                                                      *)
(***************************************************************************)
DefaultRequiredMos == 70

Return(v) == [ok |-> TRUE, value |-> v]
Raise(e)  == [ok |-> FALSE, error |-> e]

\* the ratio taken the wrong way round: value per unit of price
margin_of_safety_inverted(current_price, conservative) ==
    IF current_price = None \/ conservative = None THEN Raise("TypeError")
    ELSE IF Val(current_price) = 0 THEN Raise("ZeroDivisionError")
    ELSE Return(Fdiv(Val(conservative), Val(current_price)))

\* return current_price / self.conservative
margin_of_safety(current_price, conservative) ==
    IF current_price = None \/ conservative = None THEN Raise("TypeError")
    ELSE IF Val(conservative) = 0 THEN Raise("ZeroDivisionError")
    ELSE Return(Fdiv(Val(current_price), Val(conservative)))

\* return self.margin_of_safety(current_price) <= required_mos
is_buyable(current_price, conservative, required_mos) ==
    LET mos == margin_of_safety(current_price, conservative)
    IN  IF mos.ok THEN Return(Fle(mos.value, Hundredths(required_mos))) ELSE mos

\* return self.conservative * required_mos
buy_below_price(conservative, required_mos) ==
    IF conservative = None THEN Raise("TypeError")
    ELSE Return(Fmul(Val(conservative), Hundredths(required_mos)))

(***************************************************************************)
(* The verdict decision engine (spec.md 4.4, 4.5).                         *)
(***************************************************************************)
HighQuality   == 70
MediumQuality == 50

QualityTier(quality) ==
    IF quality >= HighQuality THEN "High"
    ELSE IF quality >= MediumQuality THEN "Medium"
    ELSE "Low"

\* the MoS bands <0.5, 0.5-0.7, 0.7-1.0, 1.0-1.2, 1.2-1.5, >1.5, each
\* including its lower edge
MosBand(mos_ratio) ==
    IF Flt(mos_ratio, Hundredths(50)) THEN 1
    ELSE IF Flt(mos_ratio, Hundredths(70)) THEN 2
    ELSE IF Flt(mos_ratio, Hundredths(100)) THEN 3
    ELSE IF Flt(mos_ratio, Hundredths(120)) THEN 4
    ELSE IF Flt(mos_ratio, Hundredths(150)) THEN 5
    ELSE 6

DecisionMatrix ==
    LET V == InvestmentVerdict
    IN  [High   |-> <<V.STRONG_BUY, V.BUY, V.ACCUMULATE, V.WATCHLIST, V.WATCHLIST, V.SELL>>,
         Medium |-> <<V.BUY, V.BUY, V.HOLD, V.HOLD, V.REDUCE, V.SELL>>,
         Low    |-> <<V.ACCUMULATE, V.ACCUMULATE, V.AVOID, V.AVOID, V.REDUCE, V.SELL>>]

determine_verdict(quality, mos_ratio) ==
    DecisionMatrix[QualityTier(quality)][MosBand(mos_ratio)]

\* the guard letting a conservative value of zero through
DataAvailableZeroAllowed(current_price, conservative) ==
    /\ current_price # None
    /\ conservative # None
    /\ Val(conservative) >= 0

\* price present and a composite conservative value > 0
DataAvailable(current_price, conservative) ==
    /\ current_price # None
    /\ conservative # None
    /\ Val(conservative) > 0

\* a report: returned with its fields, or the exception the call raised
Raised(e) == [status |-> "raised", error |-> e]

generate_mosee_intelligence(i) ==
    IF ~DataAvailable(i.current_price, i.conservative)
    THEN [status |-> "returned",
          current_price |-> i.current_price,
          quality_score |-> i.quality,
          margin_of_safety |-> None,
          has_margin_of_safety |-> FALSE,
          buy_below_price |-> None,
          verdict |-> InvestmentVerdict.INSUFFICIENT_DATA]
    ELSE LET mos == margin_of_safety(i.current_price, i.conservative)
             has == is_buyable(i.current_price, i.conservative, i.required_mos)
             bb  == buy_below_price(i.conservative, i.required_mos)
         IN  IF ~mos.ok THEN Raised(mos.error)
             ELSE IF ~has.ok THEN Raised(has.error)
             ELSE IF ~bb.ok THEN Raised(bb.error)
             ELSE [status |-> "returned",
                   current_price |-> i.current_price,
                   quality_score |-> i.quality,
                   margin_of_safety |-> Some(mos.value),
                   has_margin_of_safety |-> has.value,
                   buy_below_price |-> Some(bb.value),
                   verdict |-> determine_verdict(i.quality, mos.value)]

(***************************************************************************)
(* Inputs of the engine.                                                   *)
(***************************************************************************)
MaxPrice == 100

Qualities          == {0, 35, 49, 50, 60, 69, 70, 85, 100}
Prices             == {Some(p) : p \in 0..MaxPrice} \cup {None}
ConservativeValues == {Some(c) : c \in {-10, 0, 10, 20, 90, 120}} \cup {None}
RequiredMosValues  == {60, DefaultRequiredMos}

Inputs ==
    [quality : Qualities, current_price : Prices,
     conservative : ConservativeValues, required_mos : RequiredMosValues]

(***************************************************************************)
(* Tickers of a batch run.                                                 *)
(***************************************************************************)
NumTickers == 3
Tickers == 1..NumTickers

IdleIntelligence == inp = Idle /\ report = Idle
IdleRange        == raw = Idle /\ range = Idle
IdleComposite    == methods = Idle /\ composite = Idle
IdleBatch ==
    /\ universe = "unread"
    /\ metrics = <<>>
    /\ task = [t \in Tickers |-> "pending"]
    /\ records = [t \in Tickers |-> Idle]
    /\ phase = "idle"
    /\ pickList = <<>>
IdlePicks == rows = {} /\ listing = Idle
IdleRank  == candidates = <<>> /\ ranks = Idle
IdleScore == lens = Idle /\ style = Idle /\ score = Idle
IdleLater == IdlePicks /\ IdleRank /\ IdleScore
IdleRuns   == runs = Idle
IdleWeb    == db = {} /\ view = Idle
IdleGraham == graham = Idle
IdleRest   == IdleRuns /\ IdleWeb /\ IdleGraham

(***************************************************************************)
(* SpecIntelligence: generate_mosee_intelligence applied to every input.   *)
(***************************************************************************)
InitIntelligence ==
    /\ IdleRest
    /\ inp \in Inputs
    /\ report = Idle
    /\ IdleRange /\ IdleComposite /\ IdleBatch /\ IdleLater

GenerateIntelligence ==
    /\ report = Idle
    /\ report' = generate_mosee_intelligence(inp)
    /\ UNCHANGED <<restVars, inp, rangeVars, compositeVars, batchVars,
                   picksVars, rankVars, scoreVars>>

NextIntelligence == GenerateIntelligence

SpecIntelligence == InitIntelligence /\ [][NextIntelligence]_vars

(***************************************************************************)
(* Valuation ranges.  Values are integers in hundredths of a currency      *)
(* unit; a confidence is the integer weight of the method.                 *)
(***************************************************************************)
MethodTags == {"DCF", "Earnings", "Book"}

ValuationRange(conservative, base, optimistic, method, confidence) ==
    [conservative |-> conservative, base |-> base, optimistic |-> optimistic,
     method |-> method, confidence |-> confidence]

\* the +/- uncertainty, in percent, wrapped around a point estimate
UncertaintyFactor(quality) ==
    IF quality >= 80 THEN 15
    ELSE IF quality >= 60 THEN 25
    ELSE IF quality >= 40 THEN 35
    ELSE 50

\* a point estimate (in whole units) as a raw scenario triple (in hundredths)
wrap_point_estimate(point, quality) ==
    LET u == UncertaintyFactor(quality)
    IN  <<point * (100 - u), point * 100, point * (100 + u)>>

Min(S) == CHOOSE x \in S : \A y \in S : x <= y
Max(S) == CHOOSE x \in S : \A y \in S : x >= y

\* the scenario values as the computation produced them
AsComputed(c, b, o) == <<c, b, o>>

\* the scenario values put in order
Reorder(c, b, o) ==
    LET lo == Min({c, b, o})
        hi == Max({c, b, o})
    IN  <<lo, c + b + o - lo - hi, hi>>

\* create_dcf_range, create_earnings_range, create_book_value_range: the
\* range of a method from its raw scenario values
create_range(values, method, confidence) ==
    LET v == Reorder(values[1], values[2], values[3])
    IN  ValuationRange(v[1], v[2], v[3], method, confidence)

MaxRaw    == 3
MaxWeight == 2
RawValues   == (-MaxRaw)..MaxRaw
Confidences == 1..MaxWeight

InitRange ==
    /\ IdleRest
    /\ IdleRange
    /\ IdleIntelligence /\ IdleComposite /\ IdleBatch /\ IdleLater

\* a method computes its three scenarios and constructs its range
BuildScenarioRange ==
    \E method \in MethodTags, c, b, o \in RawValues, confidence \in Confidences :
        /\ range = Idle
        /\ raw' = [method |-> method, values |-> <<c, b, o>>]
        /\ range' = create_range(<<c, b, o>>, method, confidence)
        /\ UNCHANGED <<restVars, intelligenceVars, compositeVars, batchVars,
                       picksVars, rankVars, scoreVars>>

\* a method yields a point estimate only, wrapped by the quality's factor
BuildPointRange ==
    \E method \in MethodTags, point \in RawValues, quality \in Qualities,
       confidence \in Confidences :
        LET values == wrap_point_estimate(point, quality)
        IN  /\ range = Idle
            /\ raw' = [method |-> method, values |-> values]
            /\ range' = create_range(values, method, confidence)
            /\ UNCHANGED <<restVars, intelligenceVars, compositeVars, batchVars,
                           picksVars, rankVars, scoreVars>>

NextRange == BuildScenarioRange \/ BuildPointRange

SpecRange == InitRange /\ [][NextRange]_vars

(***************************************************************************)
(* The composite range of a ticker.  An average is kept exact, as a        *)
(* numerator and a denominator.                                            *)
(***************************************************************************)
RECURSIVE Sum(_, _)
Sum(f, S) ==
    IF S = {} THEN 0
    ELSE LET x == CHOOSE y \in S : TRUE
         IN  f[x] + Sum(f, S \ {x})

\* every method counted, a method without a range as a range of zeros
RangesZeroFilled(ms) ==
    {IF ms[m] = None THEN ValuationRange(0, 0, 0, m, 1) ELSE Val(ms[m]) :
        m \in MethodTags}

\* the ranges of the methods that could be computed
AvailableRanges(ms) == {Val(ms[m]) : m \in {k \in MethodTags : ms[k] # None}}

build_composite_valuation(ms) ==
    LET rs == AvailableRanges(ms)
    IN  IF rs = {} THEN [status |-> "unavailable"]
        ELSE [status |-> "built",
              composite_conservative |-> Min({r.conservative : r \in rs}),
              composite_base |->
                  [num |-> Sum([r \in rs |-> r.confidence * r.base], rs),
                   den |-> Sum([r \in rs |-> r.confidence], rs)],
              composite_optimistic |->
                  [num |-> Sum([r \in rs |-> r.optimistic], rs),
                   den |-> Cardinality(rs)]]

MaxValue == 3
Values == 1..MaxValue

\* the ordered ranges a method can hand to the composite
MethodRanges(m) ==
    {ValuationRange(c, b, o, m, w) :
        <<c, b, o>> \in {t \in Values \X Values \X Values :
                            t[1] <= t[2] /\ t[2] <= t[3]},
        w \in Confidences}

MethodResults ==
    {ms \in [MethodTags -> UNION {{Some(r) : r \in MethodRanges(m)} : m \in MethodTags}
                              \cup {None}] :
        \A m \in MethodTags : ms[m] # None => Val(ms[m]).method = m}

InitComposite ==
    /\ IdleRest
    /\ IdleComposite
    /\ IdleIntelligence /\ IdleRange /\ IdleBatch /\ IdleLater

BuildComposite ==
    \E ms \in MethodResults :
        /\ composite = Idle
        /\ methods' = ms
        /\ composite' = build_composite_valuation(ms)
        /\ UNCHANGED <<restVars, intelligenceVars, rangeVars, batchVars,
                       picksVars, rankVars, scoreVars>>

NextComposite == BuildComposite

SpecComposite == InitComposite /\ [][NextComposite]_vars

(***************************************************************************)
(* A batch run: phase 1 scatters one task per ticker, phase 2 ranks the    *)
(* collected records (spec.md 4.6, 5, 7).                                  *)
(***************************************************************************)
\* the priorities with INSUFFICIENT DATA left at a default of 0
VERDICT_PRIORITY_DefaultZero ==
    [v \in Verdict |->
        CASE v = "STRONG BUY" -> 1
          [] v = "BUY" -> 2
          [] v = "ACCUMULATE" -> 3
          [] v = "WATCHLIST" -> 4
          [] v = "HOLD" -> 5
          [] v = "REDUCE" -> 6
          [] v = "SELL" -> 7
          [] v = "AVOID" -> 8
          [] v = "INSUFFICIENT DATA" -> 0]

VERDICT_PRIORITY ==
    [v \in Verdict |->
        CASE v = "STRONG BUY" -> 1
          [] v = "BUY" -> 2
          [] v = "ACCUMULATE" -> 3
          [] v = "WATCHLIST" -> 4
          [] v = "HOLD" -> 5
          [] v = "REDUCE" -> 6
          [] v = "SELL" -> 7
          [] v = "AVOID" -> 8
          [] v = "INSUFFICIENT DATA" -> 9]

\* the inputs the tickers of a run are analysed with
BatchInputs ==
    {i \in Inputs :
        /\ <<i.quality, i.current_price>> \in
              {<<85, Some(40)>>, <<85, Some(84)>>, <<35, Some(84)>>, <<35, None>>}
        /\ i.conservative = Some(120)
        /\ i.required_mos = DefaultRequiredMos}

\* the record phase 1 computes from a ticker's inputs
ReportTable == {<<i, generate_mosee_intelligence(i)>> : i \in BatchInputs}
ReportOf == [i \in BatchInputs |-> (CHOOSE p \in ReportTable : p[1] = i)[2]]

BatchReports == {ReportOf[i] : i \in BatchInputs}

\* the record a failed ticker resolves to
FailedRecord ==
    [status |-> "failed", verdict |-> InvestmentVerdict.INSUFFICIENT_DATA]

\* quality score as a sort key, a record without one last
QualityKey(r) == IF r.status = "returned" THEN r.quality_score ELSE -1

\* ticker t is listed before ticker u: verdict priority, then quality score
\* descending, then ticker order
PickBefore(recs, t, u) ==
    LET pt == VERDICT_PRIORITY[recs[t].verdict]
        pu == VERDICT_PRIORITY[recs[u].verdict]
        qt == QualityKey(recs[t])
        qu == QualityKey(recs[u])
    IN  \/ pt < pu
        \/ pt = pu /\ qt > qu
        \/ pt = pu /\ qt = qu /\ t < u

RankPicks(recs) ==
    [k \in 1..NumTickers |->
        CHOOSE t \in Tickers :
            Cardinality({u \in Tickers : PickBefore(recs, u, t)}) = k - 1]

\* the barrier opening while a submitted task is still running
BarrierIgnoresRunning == \A t \in Tickers : task[t] # "pending"

\* the barrier waiting for every task to succeed
BarrierWaitsForSuccess == \A t \in Tickers : task[t] = "completed"

\* every phase-1 task of the run has completed or is marked failed
BarrierOpen == \A t \in Tickers : task[t] \in {"completed", "failed"}

Init ==
    /\ IdleRest
    /\ IdleBatch
    /\ IdleIntelligence /\ IdleRange /\ IdleComposite /\ IdleLater

ReadUniverse ==
    /\ phase = "idle"
    /\ universe' = "readable"
    /\ metrics' \in [Tickers -> BatchInputs]
    /\ phase' = "scatter"
    /\ UNCHANGED <<restVars, intelligenceVars, rangeVars, compositeVars,
                   picksVars, rankVars, scoreVars,
                   task, records, pickList>>

\* the whole input universe is unreadable: the run fails
UniverseUnreadable ==
    /\ phase = "idle"
    /\ universe' = "unreadable"
    /\ phase' = "failed"
    /\ UNCHANGED <<restVars, intelligenceVars, rangeVars, compositeVars,
                   picksVars, rankVars, scoreVars, metrics,
                   task, records, pickList>>

StartTask(t) ==
    /\ phase = "scatter"
    /\ task[t] = "pending"
    /\ task' = [task EXCEPT ![t] = "running"]
    /\ UNCHANGED <<restVars, intelligenceVars, rangeVars, compositeVars,
                   picksVars, rankVars, scoreVars, metrics,
                   universe, records, phase, pickList>>

CompleteTask(t) ==
    /\ task[t] = "running"
    /\ records' = [records EXCEPT ![t] = ReportOf[metrics[t]]]
    /\ task' = [task EXCEPT ![t] = "completed"]
    /\ UNCHANGED <<restVars, intelligenceVars, rangeVars, compositeVars,
                   picksVars, rankVars, scoreVars, metrics,
                   universe, phase, pickList>>

FailTask(t) ==
    /\ task[t] = "running"
    /\ records' = [records EXCEPT ![t] = FailedRecord]
    /\ task' = [task EXCEPT ![t] = "failed"]
    /\ UNCHANGED <<restVars, intelligenceVars, rangeVars, compositeVars,
                   picksVars, rankVars, scoreVars, metrics,
                   universe, phase, pickList>>

StartRanking ==
    /\ phase = "scatter"
    /\ BarrierOpen
    /\ phase' = "ranking"
    /\ UNCHANGED <<restVars, intelligenceVars, rangeVars, compositeVars,
                   picksVars, rankVars, scoreVars, metrics,
                   universe, task, records, pickList>>

FinishRanking ==
    /\ phase = "ranking"
    /\ pickList' = RankPicks(records)
    /\ phase' = "done"
    /\ UNCHANGED <<restVars, intelligenceVars, rangeVars, compositeVars,
                   picksVars, rankVars, scoreVars, metrics,
                   universe, task, records>>

Next ==
    \/ ReadUniverse
    \/ UniverseUnreadable
    \/ \E t \in Tickers : StartTask(t)
    \/ \E t \in Tickers : CompleteTask(t)
    \/ \E t \in Tickers : FailTask(t)
    \/ StartRanking
    \/ FinishRanking

Spec == Init /\ [][Next]_vars

\* The worker pool keeps starting tasks while some are pending, and keeps
\* ending tasks (by completion or failure) while some are running.
Fairness ==
    /\ WF_vars(\E t \in Tickers : StartTask(t))
    /\ WF_vars(\E t \in Tickers : FailTask(t) \/ CompleteTask(t))
    /\ WF_vars(StartRanking)
    /\ WF_vars(FinishRanking)

SpecFair == Spec /\ Fairness

(***************************************************************************)
(* The dashboard's queries on mosee_stock_analyses (db.ts).  A row is      *)
(* [ticker, analysis_date, verdict, quality_score, pad_mosee], the two     *)
(* scores nullable.  Rows that compare equal on every ORDER BY key come    *)
(* back in an order the database chooses.                                  *)
(***************************************************************************)
\* the CASE expression with ELSE 0 in place of ELSE 9
VerdictCaseElseFirst(verdict) ==
    CASE verdict = "STRONG BUY" -> 1
      [] verdict = "BUY" -> 2
      [] verdict = "ACCUMULATE" -> 3
      [] verdict = "WATCHLIST" -> 4
      [] verdict = "HOLD" -> 5
      [] verdict = "REDUCE" -> 6
      [] verdict = "SELL" -> 7
      [] verdict = "AVOID" -> 8
      [] OTHER -> 0

\* CASE verdict WHEN 'STRONG BUY' THEN 1 ... ELSE 9 END
VerdictCase(verdict) ==
    CASE verdict = "STRONG BUY" -> 1
      [] verdict = "BUY" -> 2
      [] verdict = "ACCUMULATE" -> 3
      [] verdict = "WATCHLIST" -> 4
      [] verdict = "HOLD" -> 5
      [] verdict = "REDUCE" -> 6
      [] verdict = "SELL" -> 7
      [] verdict = "AVOID" -> 8
      [] OTHER -> 9

\* x DESC NULLS LAST puts a strictly before b
DescNullsLast(a, b) == a # None /\ (b = None \/ Val(a) > Val(b))

\* ORDER BY of getTopPicks puts row r strictly before row q
TopPicksOrder(r, q) ==
    \/ VerdictCase(r.verdict) < VerdictCase(q.verdict)
    \/ /\ VerdictCase(r.verdict) = VerdictCase(q.verdict)
       /\ \/ DescNullsLast(r.quality_score, q.quality_score)
          \/ /\ r.quality_score = q.quality_score
             /\ DescNullsLast(r.pad_mosee, q.pad_mosee)

\* ORDER BY of getAllAnalyses puts row r strictly before row q
AllAnalysesOrder(r, q) ==
    \/ VerdictCase(r.verdict) < VerdictCase(q.verdict)
    \/ /\ VerdictCase(r.verdict) = VerdictCase(q.verdict)
       /\ DescNullsLast(r.pad_mosee, q.pad_mosee)

\* the ORDER BY of a query puts row r strictly before row q
OrderBy(query, r, q) ==
    IF query = "getTopPicks" THEN TopPicksOrder(r, q) ELSE AllAnalysesOrder(r, q)

\* the query without its WHERE clause
EveryRow(table) == table

\* WHERE analysis_date = (SELECT MAX(analysis_date) FROM mosee_stock_analyses)
LatestRows(table) ==
    {r \in table : \A q \in table : q.analysis_date <= r.analysis_date}

\* the sequences in which the database can return the rows of S under an
\* ORDER BY
Orderings(S, query) ==
    LET n == Cardinality(S)
    IN  {seq \in [1..n -> S] :
            /\ \A i, j \in 1..n : i # j => seq[i] # seq[j]
            /\ \A i, j \in 1..n : i < j => ~OrderBy(query, seq[j], seq[i])}

\* LIMIT
Limit(seq, limit) ==
    [k \in 1..(IF Len(seq) < limit THEN Len(seq) ELSE limit) |-> seq[k]]

\* const analysisDate = picks[0]?.analysis_date
PicksHeaderDate(picks) == IF Len(picks) = 0 THEN None ELSE Some(picks[1].analysis_date)

MaxLimit == 2
RowValues ==
    [analysis_date : {2}, verdict : {"BUY", "HOLD"},
     quality_score : {None, Some(50), Some(70)}, pad_mosee : {None, Some(1)}]
    \cup
    [analysis_date : {1}, verdict : {"STRONG BUY"},
     quality_score : {Some(70)}, pad_mosee : {Some(1)}]
RowChoices == {None} \cup {Some(v) : v \in RowValues}

InitPicks ==
    /\ IdleRest
    /\ \E f \in [Tickers -> RowChoices] :
          rows = {[ticker |-> t] @@ Val(f[t]) :
                     t \in {u \in Tickers : f[u] # None}}
    /\ listing = Idle
    /\ IdleIntelligence /\ IdleRange /\ IdleComposite /\ IdleBatch
    /\ IdleRank /\ IdleScore

getTopPicks ==
    /\ listing = Idle
    /\ \E limit \in 1..MaxLimit :
      \E seq \in Orderings(LatestRows(rows), "getTopPicks") :
        /\ listing' = [status |-> "listed", query |-> "getTopPicks",
                       limit |-> Some(limit), rows |-> Limit(seq, limit)]
        /\ UNCHANGED <<restVars, intelligenceVars, rangeVars, compositeVars, batchVars,
                       rankVars, scoreVars, rows>>

getAllAnalyses ==
    /\ listing = Idle
    /\ \E seq \in Orderings(LatestRows(rows), "getAllAnalyses") :
        /\ listing' = [status |-> "listed", query |-> "getAllAnalyses",
                       limit |-> None, rows |-> seq]
        /\ UNCHANGED <<restVars, intelligenceVars, rangeVars, compositeVars, batchVars,
                       rankVars, scoreVars, rows>>

NextPicks == getTopPicks \/ getAllAnalyses

SpecPicks == InitPicks /\ [][NextPicks]_vars

(***************************************************************************)
(* The Magic Formula ranking of the Cross-Sectional Ranker (spec.md 4.6).  *)
(* A candidate is [ticker, earnings_yield, return_on_capital].             *)
(***************************************************************************)
\* candidate a ranks before candidate b on a key by the value alone
RanksBeforeByValue(a, b, key) == a[key] > b[key]

\* candidate a ranks before candidate b on a key: higher value first, equal
\* values in ticker order
RanksBefore(a, b, key) ==
    \/ a[key] > b[key]
    \/ a[key] = b[key] /\ a.ticker < b.ticker

\* x put into a sorted list, behind every element it does not rank before
Insert(x, sorted, key) ==
    LET k == Cardinality({i \in 1..Len(sorted) : ~RanksBefore(x, sorted[i], key)})
    IN  SubSeq(sorted, 1, k) \o <<x>> \o SubSeq(sorted, k + 1, Len(sorted))

\* the first i candidates of the input list, sorted on a key
RECURSIVE SortPrefix(_, _, _)
SortPrefix(list, i, key) ==
    IF i = 0 THEN <<>>
    ELSE Insert(list[i], SortPrefix(list, i - 1, key), key)

\* rank 1 for the first of the sorted list
RankIn(sorted, ticker) ==
    CHOOSE k \in 1..Len(sorted) : sorted[k].ticker = ticker

magic_formula_ranks(list) ==
    LET by_ey  == SortPrefix(list, Len(list), "earnings_yield")
        by_roc == SortPrefix(list, Len(list), "return_on_capital")
    IN  [t \in {list[i].ticker : i \in 1..Len(list)} |->
            [ey_rank       |-> RankIn(by_ey, t),
             roc_rank      |-> RankIn(by_roc, t),
             combined_rank |-> RankIn(by_ey, t) + RankIn(by_roc, t)]]

MaxYield == 2
Yields == 1..MaxYield

\* the universes, in every input order
CandidateLists ==
    {list \in [Tickers -> [ticker : Tickers, earnings_yield : Yields,
                           return_on_capital : Yields]] :
        \A i, j \in Tickers : i # j => list[i].ticker # list[j].ticker}

InitRank ==
    /\ IdleRest
    /\ candidates \in CandidateLists
    /\ ranks = Idle
    /\ IdleIntelligence /\ IdleRange /\ IdleComposite /\ IdleBatch
    /\ IdlePicks /\ IdleScore

RankUniverse ==
    /\ ranks = Idle
    /\ ranks' = [status |-> "ranked", of |-> magic_formula_ranks(candidates)]
    /\ UNCHANGED <<restVars, intelligenceVars, rangeVars, compositeVars, batchVars,
                   picksVars, scoreVars, candidates>>

NextRank == RankUniverse

SpecRank == InitRank /\ [][NextRank]_vars

(***************************************************************************)
(* Quality / composite scorer: five lens scores combined under a style.    *)
(* Weights are kept in percent, as the Investment Styles table gives them, *)
(* and enter the weighted sum as the doubles the literals 0.20, 0.25, ...  *)
(* denote.                                                                 *)
(***************************************************************************)
Lenses == {"graham", "buffett", "lynch", "greenblatt", "fisher"}

MaxScore == 100

GrahamCriteria == 7

\* the 0-7 count of defensive criteria passed, scaled linearly to 0-100
graham_score(passed) == Fdiv(MaxScore * passed, GrahamCriteria)

DefaultWeights ==
    [graham |-> 20, buffett |-> 25, lynch |-> 15, greenblatt |-> 20, fisher |-> 20]

InvestmentStyle ==
    {"DEEP_VALUE", "QUALITY_VALUE", "GARP", "MAGIC_FORMULA", "GROWTH", "BALANCED"}

InvestmentStylesUnbalanced ==
    [DEEP_VALUE    |-> [graham |-> 35, buffett |-> 25, lynch |-> 10, greenblatt |-> 20, fisher |-> 10],
     QUALITY_VALUE |-> [graham |-> 15, buffett |-> 40, lynch |-> 15, greenblatt |-> 15, fisher |-> 15],
     GARP          |-> [graham |-> 15, buffett |-> 20, lynch |-> 35, greenblatt |-> 10, fisher |-> 20],
     MAGIC_FORMULA |-> [graham |-> 10, buffett |-> 15, lynch |-> 15, greenblatt |-> 45, fisher |-> 15],
     GROWTH        |-> [graham |-> 10, buffett |-> 15, lynch |-> 25, greenblatt |-> 10, fisher |-> 45],
     BALANCED      |-> [graham |-> 20, buffett |-> 20, lynch |-> 20, greenblatt |-> 20, fisher |-> 20]]

InvestmentStyles ==
    [DEEP_VALUE    |-> [graham |-> 35, buffett |-> 25, lynch |-> 10, greenblatt |-> 20, fisher |-> 10],
     QUALITY_VALUE |-> [graham |-> 15, buffett |-> 40, lynch |-> 15, greenblatt |-> 15, fisher |-> 15],
     GARP          |-> [graham |-> 15, buffett |-> 20, lynch |-> 35, greenblatt |-> 10, fisher |-> 20],
     MAGIC_FORMULA |-> [graham |-> 10, buffett |-> 15, lynch |-> 15, greenblatt |-> 45, fisher |-> 15],
     GROWTH        |-> [graham |-> 10, buffett |-> 15, lynch |-> 25, greenblatt |-> 10, fisher |-> 40],
     BALANCED      |-> [graham |-> 20, buffett |-> 20, lynch |-> 20, greenblatt |-> 20, fisher |-> 20]]

\* graham_score * 0.20 + buffett_score * 0.25 + ... , summed left to right
MOSEE_composite(scores, w) ==
    Fadd(Fadd(Fadd(Fadd(Fmulf(scores.graham, Hundredths(w.graham)),
                        Fmulf(scores.buffett, Hundredths(w.buffett))),
                   Fmulf(scores.lynch, Hundredths(w.lynch))),
              Fmulf(scores.greenblatt, Hundredths(w.greenblatt))),
         Fmulf(scores.fisher, Hundredths(w.fisher)))

WeightTotal(w) == w.graham + w.buffett + w.lynch + w.greenblatt + w.fisher

\* a custom override is taken only when its weights are a full 100%
AcceptsWeights(w) == (\A l \in Lenses : w[l] >= 0) /\ WeightTotal(w) = 100

QualityScore(total, breakdown, name, w) ==
    [status |-> "scored", total |-> total, breakdown |-> breakdown,
     style |-> name, weights |-> w]

StyleScalesLenses(lens_results, name, w) ==
    QualityScore(MOSEE_composite(lens_results, w),
                 [l \in Lenses |-> Fmulf(lens_results[l], Hundredths(w[l]))], name, w)

\* calculate_composite_score(ticker, metrics, style), the lens results of
\* the metrics taken as given
calculate_composite_score(lens_results, name, w) ==
    QualityScore(MOSEE_composite(lens_results, w), lens_results, name, w)

\* the scores the Graham lens can give, one per count of criteria passed
GrahamScores == {graham_score(passed) : passed \in 0..GrahamCriteria}

LensValues == {FromInt(0), graham_score(3), FromInt(MaxScore)}

LensResults == {r \in [Lenses -> LensValues] : r.graham \in GrahamScores}

Overrides ==
    { [graham |-> 50, buffett |-> 50, lynch |-> 0, greenblatt |-> 0, fisher |-> 0],
      [graham |-> 30, buffett |-> 30, lynch |-> 30, greenblatt |-> 30, fisher |-> 30],
      [graham |-> 120, buffett |-> 0 - 20, lynch |-> 0, greenblatt |-> 0, fisher |-> 0] }

InitScore ==
    /\ IdleRest
    /\ lens \in LensResults
    /\ style = Idle
    /\ score = Idle
    /\ IdleIntelligence /\ IdleRange /\ IdleComposite /\ IdleBatch
    /\ IdlePicks /\ IdleRank

\* the composite under the default weights
ScoreDefault ==
    /\ score = Idle
    /\ style' = [status |-> "default"]
    /\ score' = calculate_composite_score(lens, "DEFAULT", DefaultWeights)
    /\ UNCHANGED <<restVars, intelligenceVars, rangeVars, compositeVars, batchVars,
                   picksVars, rankVars, lens>>

\* for style in styles: calculate_composite_score("AAPL", metrics, style)
ScoreStyles ==
    /\ score = Idle
    /\ style' = [status |-> "presets"]
    /\ score' = [status |-> "compared",
                 by |-> [n \in InvestmentStyle |->
                            calculate_composite_score(lens, n, InvestmentStyles[n])]]
    /\ UNCHANGED <<restVars, intelligenceVars, rangeVars, compositeVars, batchVars,
                   picksVars, rankVars, lens>>

\* the composite under explicit per-lens weights
ScoreOverride(w) ==
    /\ score = Idle
    /\ style' = [status |-> "override", weights |-> w]
    /\ score' = IF AcceptsWeights(w)
                THEN calculate_composite_score(lens, "CUSTOM", w)
                ELSE [status |-> "rejected"]
    /\ UNCHANGED <<restVars, intelligenceVars, rangeVars, compositeVars, batchVars,
                   picksVars, rankVars, lens>>

NextScore ==
    \/ ScoreDefault
    \/ ScoreStyles
    \/ \E w \in Overrides : ScoreOverride(w)

SpecScore == InitScore /\ [][NextScore]_vars

(***************************************************************************)
(* Several batch runs, each with its own analysis date, style and          *)
(* required margin of safety, executing concurrently (spec.md 3, 5, 9).    *)
(***************************************************************************)
\* a run is named by its analysis date
Runs == {1, 2}

RunConfigs ==
    {[style |-> "DEEP_VALUE", required_mos |-> DefaultRequiredMos],
     [style |-> "GROWTH", required_mos |-> 60]}

\* the metrics of a ticker, the composite scorer's result given per style
ValueStock  ==
    [quality |-> [DEEP_VALUE |-> 85, GROWTH |-> 35],
     current_price |-> Some(80), conservative |-> Some(120)]
GrowthStock ==
    [quality |-> [DEEP_VALUE |-> 35, GROWTH |-> 85],
     current_price |-> Some(80), conservative |-> Some(120)]

\* the universe every run reads
RunUniverse == [t \in Tickers |-> IF t = 1 THEN ValueStock ELSE GrowthStock]

\* the arguments phase 1 hands to the engine for metrics m under configuration c
RunInput(m, c) ==
    [quality |-> m.quality[c.style], current_price |-> m.current_price,
     conservative |-> m.conservative, required_mos |-> c.required_mos]

RunInputs == {RunInput(m, c) : m \in {ValueStock, GrowthStock}, c \in RunConfigs}

RunReportTable == {<<i, generate_mosee_intelligence(i)>> : i \in RunInputs}

\* the StockAnalysisRecord of ticker t at analysis date d
StockAnalysisRecord(t, d, m, c) ==
    [ticker |-> t, analysis_date |-> d, style |-> c.style]
        @@ (CHOOSE p \in RunReportTable : p[1] = RunInput(m, c))[2]

FailedAnalysisRecord(t, d, c) ==
    [ticker |-> t, analysis_date |-> d, style |-> c.style] @@ FailedRecord

\* a singleton style table: the configuration of the run started last
ConfigOfLatestRun(rs, r) ==
    LET started == {q \in Runs : rs[q].phase # "idle"}
    IN  rs[CHOOSE q \in started : \A o \in started : o <= q].config

\* the configuration passed into run r
ConfigOf(rs, r) == rs[r].config

\* a store keyed by ticker alone: the record replaces the ticker's earlier ones
StoreByTicker(rs, r, t, rec) ==
    [q \in Runs |->
        IF q = r \/ rs[q].records[t] # Idle
        THEN [rs[q] EXCEPT !.records[t] = rec]
        ELSE rs[q]]

\* the record joins the record set of its own run
StoreRecord(rs, r, t, rec) == [rs EXCEPT ![r].records[t] = rec]

RunBarrierOpen(r) == \A t \in Tickers : runs[r].task[t] \in {"completed", "failed"}

InitRuns ==
    /\ runs = [r \in Runs |->
                  [phase |-> "idle", config |-> Idle, metrics |-> <<>>,
                   task |-> [t \in Tickers |-> "pending"],
                   records |-> [t \in Tickers |-> Idle],
                   pickList |-> <<>>]]
    /\ IdleWeb /\ IdleGraham
    /\ IdleIntelligence /\ IdleRange /\ IdleComposite /\ IdleBatch /\ IdleLater

RunUnchanged ==
    UNCHANGED <<intelligenceVars, rangeVars, compositeVars, batchVars,
                picksVars, rankVars, scoreVars, db, view, graham>>

StartRun(r) ==
    /\ runs[r].phase = "idle"
    /\ \E c \in RunConfigs :
          runs' = [runs EXCEPT ![r].phase = "scatter", ![r].config = c,
                               ![r].metrics = RunUniverse]
    /\ RunUnchanged

StartRunTask(r, t) ==
    /\ runs[r].phase = "scatter"
    /\ runs[r].task[t] = "pending"
    /\ runs' = [runs EXCEPT ![r].task[t] = "running"]
    /\ RunUnchanged

CompleteRunTask(r, t) ==
    /\ runs[r].task[t] = "running"
    /\ runs' = [StoreRecord(runs, r, t,
                    StockAnalysisRecord(t, r, runs[r].metrics[t], ConfigOf(runs, r)))
                  EXCEPT ![r].task[t] = "completed"]
    /\ RunUnchanged

FailRunTask(r, t) ==
    /\ runs[r].task[t] = "running"
    /\ runs' = [StoreRecord(runs, r, t, FailedAnalysisRecord(t, r, ConfigOf(runs, r)))
                  EXCEPT ![r].task[t] = "failed"]
    /\ RunUnchanged

\* the gather step: ranks and orders the collected records of the run
RankRun(r) ==
    /\ runs[r].phase = "scatter"
    /\ RunBarrierOpen(r)
    /\ runs' = [runs EXCEPT ![r].phase = "done",
                            ![r].pickList = RankPicks(runs[r].records)]
    /\ RunUnchanged

NextRuns ==
    \E r \in Runs :
        \/ StartRun(r)
        \/ \E t \in Tickers : StartRunTask(r, t)
        \/ \E t \in Tickers : CompleteRunTask(r, t)
        \/ \E t \in Tickers : FailRunTask(r, t)
        \/ RankRun(r)

SpecRuns == InitRuns /\ [][NextRuns]_vars

(***************************************************************************)
(* The Graham lens and the guarded ratios (book-intelligence.md, spec.md   *)
(* 4.1, 7).  The Graham Number sqrt(22.5 * EPS * BVPS) is kept as twice    *)
(* its square, 45 * EPS * BVPS, so that price <= Graham Number is decided  *)
(* exactly as 2 * price^2 <= 45 * EPS * BVPS.                              *)
(***************************************************************************)
\* the square root taken of whatever the product is
graham_number_unguarded(eps, bvps) ==
    IF 45 * eps * bvps < 0 THEN Raise("ValueError")
    ELSE Return(Some(45 * eps * bvps))

\* Graham Number, omitted when EPS <= 0 or book value per share <= 0
graham_number(eps, bvps) ==
    IF eps <= 0 \/ bvps <= 0 THEN Return(None)
    ELSE Return(Some(45 * eps * bvps))

\* a ratio, undefined when its denominator is zero or negative
GuardedRatio(num, den) ==
    IF den <= 0 THEN Return(None) ELSE Return(Some(Fdiv(num, den)))

\* criterion 6, Moderate P/E: P/E <= 15
ModeratePE(m) == m.eps > 0 /\ m.price <= 15 * m.eps

\* criterion 7, Moderate P/B: P/B <= 1.5, or P/E x P/B <= 22.5
ModeratePB(m, gn) ==
    \/ m.bvps > 0 /\ 2 * m.price <= 3 * m.bvps
    \/ gn # None /\ 2 * m.price * m.price <= Val(gn)

\* criteria 1-5 come decided with the metrics; 6 and 7 are priced here
CriteriaPassed(m, gn) ==
    m.others_passed + (IF ModeratePE(m) THEN 1 ELSE 0)
                    + (IF ModeratePB(m, gn) THEN 1 ELSE 0)

\* score(metrics) -> LensResult of the Graham lens, with the ratios the
\* other lenses and the gate take from the same metrics
graham_lens(m) ==
    LET gn  == graham_number(m.eps, m.bvps)
        roe == GuardedRatio(m.net_income, m.equity)
        cov == GuardedRatio(m.ebit, m.interest_expense)
        mos == IF DataAvailable(Some(m.price), Some(m.conservative))
               THEN LET ratio == margin_of_safety(Some(m.price), Some(m.conservative))
                    IN  IF ratio.ok THEN Return(Some(ratio.value)) ELSE ratio
               ELSE Return(None)
    IN  IF ~gn.ok THEN Raised(gn.error)
        ELSE IF ~roe.ok THEN Raised(roe.error)
        ELSE IF ~cov.ok THEN Raised(cov.error)
        ELSE IF ~mos.ok THEN Raised(mos.error)
        ELSE [status |-> "returned",
              graham_number |-> gn.value,
              passed |-> CriteriaPassed(m, gn.value),
              score |-> graham_score(CriteriaPassed(m, gn.value)),
              roe |-> roe.value,
              interest_coverage |-> cov.value,
              mos_ratio |-> mos.value]

\* criteria 1-5 of the seven
OtherCriteria == GrahamCriteria - 2

GrahamMetrics ==
    [eps : {-1, 0, 2}, bvps : {-1, 0, 3}, price : {4, 20},
     others_passed : 0..OtherCriteria,
     net_income : {2}, equity : {-1, 0, 10},
     ebit : {5}, interest_expense : {-1, 0, 1},
     conservative : {-1, 0, 10}]

InitGraham ==
    /\ \E m \in GrahamMetrics : graham = [status |-> "pending", metrics |-> m]
    /\ IdleRuns /\ IdleWeb
    /\ IdleIntelligence /\ IdleRange /\ IdleComposite /\ IdleBatch /\ IdleLater

ScoreGraham ==
    /\ graham.status = "pending"
    /\ graham' = [status |-> "scored", metrics |-> graham.metrics,
                  result |-> graham_lens(graham.metrics)]
    /\ UNCHANGED <<intelligenceVars, rangeVars, compositeVars, batchVars,
                   picksVars, rankVars, scoreVars, runs, db, view>>

NextGraham == ScoreGraham

SpecGraham == InitGraham /\ [][NextGraham]_vars

(***************************************************************************)
(* SpecWeb: the dashboard pages (Home, Picks, stock detail) read the table *)
(* mosee_stock_analyses while batch runs insert their records into it.     *)
(* Each await of a page is one step; inserts may fall between the steps.   *)
(***************************************************************************)
AnalysisDates == {1, 2}

\* a ticker string: a name in upper or lower case
Symbol(t, c) == [name |-> t, case |-> c]

\* the request parameter used as typed
AsTyped(s) == s

\* String.prototype.toUpperCase
toUpperCase(s) == [s EXCEPT !.case = "upper"]

\* a name no run has analysed
UnknownName == NumTickers + 1

\* the [ticker] segment of a request for the detail page
Params == [name : Tickers \cup {UnknownName}, case : {"upper", "lower"}]

\* a verdict string written before the enumeration took its present form
LegacyVerdict == "PENDING"

\* the verdict column of the record a run of date d stores for ticker t
StoredVerdict(t, d) ==
    IF d = 1
    THEN CASE t = 1 -> "STRONG BUY"
           [] t = 2 -> "INSUFFICIENT DATA"
           [] t = 3 -> LegacyVerdict
           [] OTHER -> "HOLD"
    ELSE IF t = 1 THEN "HOLD" ELSE "BUY"

\* the JSON columns of a record: null in the earlier run, filled in the later
StoredList(d, item) == IF d = 1 THEN None ELSE Some(<<item>>)

\* the row a run of date d stores for ticker t
StoredRow(t, d) ==
    [ticker        |-> Symbol(t, "upper"),
     analysis_date |-> d,
     verdict       |-> StoredVerdict(t, d),
     quality_score |-> None,
     pad_mosee     |-> None,
     perspectives  |-> StoredList(d, "graham"),
     strengths     |-> StoredList(d, "moat"),
     concerns      |-> StoredList(d, "debt"),
     action_items  |-> StoredList(d, "buy below")]

\* getStockAnalysis without the upper-casing of its argument
getStockAnalysisAsTyped(table, ticker) ==
    LET matching == {r \in table : r.ticker = AsTyped(ticker)}
    IN  IF matching = {} THEN None
        ELSE Some(CHOOSE r \in matching :
                     \A q \in matching : q.analysis_date <= r.analysis_date)

\* WHERE ticker = ${ticker.toUpperCase()} ORDER BY analysis_date DESC LIMIT 1;
\* return rows[0] || null
getStockAnalysis(table, ticker) ==
    LET matching == {r \in table : r.ticker = toUpperCase(ticker)}
    IN  IF matching = {} THEN None
        ELSE Some(CHOOSE r \in matching :
                     \A q \in matching : q.analysis_date <= r.analysis_date)

\* COUNT(*), MAX(analysis_date), COUNT(*) FILTER (verdict IN ('STRONG BUY',
\* 'BUY')) over the rows of the latest date; null when latest_date is null
getAnalysisStats(table) ==
    IF LatestRows(table) = {} THEN None
    ELSE Some([totalAnalyzed |-> Cardinality(LatestRows(table)),
               analysisDate  |-> Some((CHOOSE r \in LatestRows(table) : TRUE).analysis_date),
               buyCount      |-> Cardinality({r \in LatestRows(table) :
                                                 r.verdict \in {"STRONG BUY", "BUY"}})])

\* topPicks = await getTopPicks(10)
HomeLimit == 10

\* stock.perspectives || []
OrEmpty(list) == IF list = None THEN <<>> ELSE Val(list)

InitWeb ==
    /\ db = {} /\ view = Idle
    /\ IdleRuns /\ IdleGraham
    /\ IdleIntelligence /\ IdleRange /\ IdleComposite /\ IdleBatch /\ IdleLater

WebUnchanged ==
    UNCHANGED <<intelligenceVars, rangeVars, compositeVars, batchVars,
                picksVars, rankVars, scoreVars, runs, graham>>

\* a batch run of date d inserts the record of ticker t; runs follow one
\* another in date order
InsertRecord(t, d) ==
    /\ \A r \in db : r.analysis_date <= d
    /\ StoredRow(t, d) \notin db
    /\ db' = db \cup {StoredRow(t, d)}
    /\ UNCHANGED view
    /\ WebUnchanged

\* let topPicks = []; let stats = null
OpenHome ==
    /\ view = Idle
    /\ view' = [status |-> "home", pc |-> "getTopPicks",
                topPicks |-> <<>>, stats |-> None, threw |-> FALSE,
                shown |-> None]
    /\ UNCHANGED db
    /\ WebUnchanged

HomeGetTopPicks ==
    /\ view.status = "home" /\ view.pc = "getTopPicks"
    /\ \E seq \in Orderings(LatestRows(db), "getTopPicks") :
          view' = [view EXCEPT !.pc = "getAnalysisStats",
                               !.topPicks = Limit(seq, HomeLimit)]
    /\ UNCHANGED db
    /\ WebUnchanged

\* the first query throws: the catch block leaves both values at their default
HomeGetTopPicksThrows ==
    /\ view.status = "home" /\ view.pc = "getTopPicks"
    /\ view' = [view EXCEPT !.pc = "render", !.threw = TRUE]
    /\ UNCHANGED db
    /\ WebUnchanged

HomeGetAnalysisStats ==
    /\ view.status = "home" /\ view.pc = "getAnalysisStats"
    /\ view' = [view EXCEPT !.pc = "render", !.stats = getAnalysisStats(db)]
    /\ UNCHANGED db
    /\ WebUnchanged

\* a failure of the second query that also discards the picks already fetched
HomeStatsFailureDropsPicks ==
    /\ view.status = "home" /\ view.pc = "getAnalysisStats"
    /\ view' = [view EXCEPT !.pc = "render", !.threw = TRUE,
                            !.topPicks = <<>>]
    /\ UNCHANGED db
    /\ WebUnchanged

\* the second query throws: topPicks keeps the value already assigned
HomeGetAnalysisStatsThrows ==
    /\ view.status = "home" /\ view.pc = "getAnalysisStats"
    /\ view' = [view EXCEPT !.pc = "render", !.threw = TRUE]
    /\ UNCHANGED db
    /\ WebUnchanged

\* {stats && (...)} and {topPicks.length > 0 ? cards : 'No Analysis Data Yet'}
HomeRender ==
    /\ view.status = "home" /\ view.pc = "render"
    /\ view' = [view EXCEPT
                  !.pc = "done",
                  !.shown = Some([statsBlock |-> view.stats,
                                  picks |-> IF Len(view.topPicks) > 0
                                            THEN "cards"
                                            ELSE "No Analysis Data Yet"])]
    /\ UNCHANGED db
    /\ WebUnchanged

\* let picks = []
OpenPicks ==
    /\ view = Idle
    /\ view' = [status |-> "picks", pc |-> "getAllAnalyses",
                picks |-> <<>>, threw |-> FALSE, shown |-> None]
    /\ UNCHANGED db
    /\ WebUnchanged

PicksGetAllAnalyses ==
    /\ view.status = "picks" /\ view.pc = "getAllAnalyses"
    /\ \E seq \in Orderings(LatestRows(db), "getAllAnalyses") :
          view' = [view EXCEPT !.pc = "render", !.picks = seq]
    /\ UNCHANGED db
    /\ WebUnchanged

PicksGetAllAnalysesThrows ==
    /\ view.status = "picks" /\ view.pc = "getAllAnalyses"
    /\ view' = [view EXCEPT !.pc = "render", !.threw = TRUE]
    /\ UNCHANGED db
    /\ WebUnchanged

\* if (stocks.length === 0) 'No stock analyses found. ...'
StockTable(stocks) ==
    IF Len(stocks) = 0 THEN "No stock analyses found" ELSE "table"

PicksRender ==
    /\ view.status = "picks" /\ view.pc = "render"
    /\ view' = [view EXCEPT
                  !.pc = "done",
                  !.shown = Some([analysisDate |-> PicksHeaderDate(view.picks),
                                  table |-> StockTable(view.picks)])]
    /\ UNCHANGED db
    /\ WebUnchanged

\* let stock = null
OpenDetail(ticker) ==
    /\ view = Idle
    /\ view' = [status |-> "detail", pc |-> "getStockAnalysis",
                ticker |-> ticker, stock |-> None, threw |-> FALSE,
                shown |-> None]
    /\ UNCHANGED db
    /\ WebUnchanged

DetailGetStockAnalysis ==
    /\ view.status = "detail" /\ view.pc = "getStockAnalysis"
    /\ view' = [view EXCEPT !.pc = "render",
                            !.stock = getStockAnalysis(db, view.ticker)]
    /\ UNCHANGED db
    /\ WebUnchanged

DetailGetStockAnalysisThrows ==
    /\ view.status = "detail" /\ view.pc = "getStockAnalysis"
    /\ view' = [view EXCEPT !.pc = "render", !.threw = TRUE]
    /\ UNCHANGED db
    /\ WebUnchanged

\* if (!stock) notFound(); otherwise the page with its lists defaulted
DetailRender ==
    /\ view.status = "detail" /\ view.pc = "render"
    /\ view' = [view EXCEPT
                  !.pc = "done",
                  !.shown =
                     IF view.stock = None THEN Some([page |-> "notFound"])
                     ELSE Some([page |-> "stock",
                                perspectives |-> OrEmpty(Val(view.stock).perspectives),
                                strengths    |-> OrEmpty(Val(view.stock).strengths),
                                concerns     |-> OrEmpty(Val(view.stock).concerns),
                                actionItems  |-> OrEmpty(Val(view.stock).action_items)])]
    /\ UNCHANGED db
    /\ WebUnchanged

NextWeb ==
    \/ \E t \in Tickers, d \in AnalysisDates : InsertRecord(t, d)
    \/ OpenHome
    \/ HomeGetTopPicks
    \/ HomeGetTopPicksThrows
    \/ HomeGetAnalysisStats
    \/ HomeGetAnalysisStatsThrows
    \/ HomeRender
    \/ OpenPicks
    \/ PicksGetAllAnalyses
    \/ PicksGetAllAnalysesThrows
    \/ PicksRender
    \/ \E ticker \in Params : OpenDetail(ticker)
    \/ DetailGetStockAnalysis
    \/ DetailGetStockAnalysisThrows
    \/ DetailRender

SpecWeb == InitWeb /\ [][NextWeb]_vars

(***************************************************************************)
(* SpecMarker: the valuation bar of the stock detail page places the       *)
(* current-price marker for one stored record.                             *)
(***************************************************************************)
\* the results of a JavaScript division that are not finite doubles
NaN == [s |-> 0, e |-> 0, m |-> <<>>]
Infinity(sign) == [s |-> sign, e |-> 2 ^ 10, m |-> <<>>]
IsInfinite(x) == x = Infinity(1) \/ x = Infinity(-1)

\* a / b for integer-valued numbers: 0 / 0 is NaN, a / 0 is +-Infinity
JsDivide(a, b) ==
    IF b = 0 THEN (IF a = 0 THEN NaN ELSE Infinity(Sgn(a)))
    ELSE Fdiv(a, b)

\* x * k for a positive integer k
JsTimes(x, k) ==
    IF x = NaN \/ IsInfinite(x) THEN x
    ELSE IF x.s = 1 THEN Fmul(k, x)
    ELSE [Fmul(k, [x EXCEPT !.s = 1]) EXCEPT !.s = -1]

\* Math.max(k, x) and Math.min(k, x) for an integer k: NaN if x is NaN
MathMax(k, x) ==
    IF x = NaN THEN NaN
    ELSE IF IsInfinite(x) THEN (IF x.s = 1 THEN x ELSE FromInt(k))
    ELSE IF Flt(x, FromInt(k)) THEN FromInt(k) ELSE x

MathMin(k, x) ==
    IF x = NaN THEN NaN
    ELSE IF IsInfinite(x) THEN (IF x.s = 1 THEN FromInt(k) ELSE x)
    ELSE IF Flt(FromInt(k), x) THEN FromInt(k) ELSE x

\* a nullable number in a JSX condition: null and 0 are falsy
Truthy(x) == x # None /\ Val(x) # 0

\* the right end of the bar, in percent
FullWidth == 100

\* Math.min(100, Math.max(0, ((current_price - valuation_conservative) /
\* (valuation_optimistic - valuation_conservative)) * 100))
MarkerLeft(stock) ==
    LET price        == Val(stock.current_price)
        conservative == Val(stock.valuation_conservative)
        optimistic   == Val(stock.valuation_optimistic)
    IN  MathMin(FullWidth, MathMax(0,
            JsTimes(JsDivide(price - conservative,
                             optimistic - conservative), FullWidth)))

\* {current_price && valuation_conservative && valuation_optimistic && (...)}
PriceMarker(stock) ==
    IF /\ Truthy(stock.current_price)
       /\ Truthy(stock.valuation_conservative)
       /\ Truthy(stock.valuation_optimistic)
    THEN Some(MarkerLeft(stock))
    ELSE None

\* the nullable numeric columns of a stored record
MarkerValues == {None} \cup {Some(v) : v \in 0..MaxValue}

\* stored records: the valuation range is ordered when both ends are stored
MarkerStocks ==
    {s \in [current_price : MarkerValues,
            valuation_conservative : MarkerValues,
            valuation_optimistic : MarkerValues] :
        (s.valuation_conservative # None /\ s.valuation_optimistic # None)
            => Val(s.valuation_conservative) <= Val(s.valuation_optimistic)}

InitMarker ==
    /\ db = {}
    /\ \E s \in MarkerStocks :
          view = [status |-> "bar", pc |-> "render", stock |-> s,
                  marker |-> None]
    /\ IdleRuns /\ IdleGraham
    /\ IdleIntelligence /\ IdleRange /\ IdleComposite /\ IdleBatch /\ IdleLater

RenderMarker ==
    /\ view.status = "bar" /\ view.pc = "render"
    /\ view' = [view EXCEPT !.pc = "done", !.marker = PriceMarker(view.stock)]
    /\ UNCHANGED db
    /\ WebUnchanged

NextMarker == RenderMarker

SpecMarker == InitMarker /\ [][NextMarker]_vars

(***************************************************************************)
(* Properties of the engine, stated in exact integer arithmetic over the   *)
(* inputs: mos_ratio = P / C and required_mos = R / 100.                   *)
(***************************************************************************)
Returned  == report # Idle /\ report.status = "returned"
Available ==
    /\ inp.current_price # None
    /\ inp.conservative # None
    /\ Val(inp.conservative) > 0
P == Val(inp.current_price)
C == Val(inp.conservative)
R == inp.required_mos

\* the band of P / C among <0.5, 0.5-0.7, 0.7-1.0, 1.0-1.2, 1.2-1.5, >1.5,
\* each including its lower edge
ExactBand ==
    IF 100 * P < 50 * C THEN 1
    ELSE IF 100 * P < 70 * C THEN 2
    ELSE IF 100 * P < 100 * C THEN 3
    ELSE IF 100 * P < 120 * C THEN 4
    ELSE IF 100 * P < 150 * C THEN 5
    ELSE 6

ExactTier ==
    IF inp.quality >= 70 THEN "High"
    ELSE IF inp.quality >= 50 THEN "Medium"
    ELSE "Low"

\* On these inputs the rounded quotient compares with the rounded literal as
\* the exact quotient compares with the exact threshold.
GateComparisonExact ==
    (Returned /\ Available) =>
        (report.has_margin_of_safety <=> (100 * P <= R * C))

\* C1: for every quality and every mos_ratio >= 0, band and tier edges
\* included, the engine returns a report (it never raises) carrying one
\* verdict, and that verdict is one of the nine values of the Verdict type.
C1_VerdictInEnumeration ==
    report # Idle => (report.status = "returned" /\ report.verdict \in Verdict)

\* C1 witness: a report returned at the tier edge 70 and the band edge 1.5
C1_Witness ==
    /\ Returned /\ Available
    /\ inp.quality = 70
    /\ 100 * P = 150 * C
    /\ report.verdict = "SELL"

\* C2: with price and conservative value available, the verdict is the
\* cell of the 3x6 matrix selected by quality tier and MoS band.
C2_Matrix ==
    [High   |-> <<"STRONG BUY", "BUY", "ACCUMULATE", "WATCHLIST", "WATCHLIST", "SELL">>,
     Medium |-> <<"BUY", "BUY", "HOLD", "HOLD", "REDUCE", "SELL">>,
     Low    |-> <<"ACCUMULATE", "ACCUMULATE", "AVOID", "AVOID", "REDUCE", "SELL">>]

C3_BandsAgreeWithGate ==
    (Returned /\ Available /\ R = DefaultRequiredMos) =>
        /\ report.has_margin_of_safety <=> (ExactBand \in {1, 2})
        /\ report.has_margin_of_safety =>
              report.verdict \in
                 (CASE ExactTier = "High"   -> {"STRONG BUY", "BUY"}
                    [] ExactTier = "Medium" -> {"BUY"}
                    [] ExactTier = "Low"    -> {"ACCUMULATE"})

\* C4 (as claimed): has_margin_of_safety is true exactly when
\* price / conservative <= required_mos, and exactly when
\* price <= buy_below_price; conservative 120 and required 0.7 give 84.
C4_GateMatchesBuyBelow ==
    (Returned /\ Available) =>
        /\ report.has_margin_of_safety <=> (100 * P <= R * C)
        /\ report.has_margin_of_safety <=>
              Fle(FromInt(P), Val(report.buy_below_price))
        /\ (C = 120 /\ R = 70) => Val(report.buy_below_price) = FromInt(84)

\* C5 (as claimed): for every required_mos, STRONG BUY or BUY is produced
\* only for a record whose has_mos is true (mos_ratio <= required_mos).
C5_BuyOnlyWithMos ==
    (Returned /\ report.verdict \in {"STRONG BUY", "BUY"}) =>
        /\ Available
        /\ report.has_margin_of_safety
        /\ 100 * P <= R * C

\* C6: when the price is absent or the composite conservative value is
\* unavailable or <= 0, the call raises nothing, the verdict is
\* INSUFFICIENT DATA whatever the quality and mos_ratio is undefined; in
\* every other case the verdict is not INSUFFICIENT DATA.
C6_InsufficientData ==
    report # Idle =>
        /\ report.status = "returned"
        /\ ~Available =>
              /\ report.verdict = "INSUFFICIENT DATA"
              /\ report.margin_of_safety = None
              /\ report.buy_below_price = None
              /\ ~report.has_margin_of_safety
        /\ Available =>
              /\ report.verdict # "INSUFFICIENT DATA"
              /\ report.margin_of_safety # None

\* C6 witness: a high-quality ticker whose conservative value is zero
C6_Witness ==
    /\ Returned
    /\ inp.conservative = Some(0)
    /\ inp.current_price # None
    /\ inp.quality = 85
    /\ report.verdict = "INSUFFICIENT DATA"

MethodsAvailable == {m \in MethodTags : methods[m] # None}

\* C8 (as claimed): with conservative the minimum, base the
\* confidence-weighted average and optimistic the unweighted average of the
\* available ordered method ranges, the composite has
\* conservative <= base <= optimistic.
C8_CompositeOrdered ==
    (composite # Idle /\ composite.status = "built") =>
        LET b == composite.composite_base
            o == composite.composite_optimistic
        IN  /\ composite.composite_conservative * b.den <= b.num
            /\ b.num * o.den <= o.num * b.den

C10_RankerWaitsForBarrier ==
    phase \in {"ranking", "done"} =>
        \A t \in Tickers : task[t] \in {"completed", "failed"}

\* C10 witness: ranking begun over a run with a failed and a completed task
C10_Witness ==
    /\ phase = "ranking"
    /\ \E t \in Tickers : task[t] = "failed"
    /\ \E t \in Tickers : task[t] = "completed"

\* the position of ticker t in the pick list
PickPosition(t) == CHOOSE k \in 1..Len(pickList) : pickList[k] = t

\* C11: a step that marks one ticker failed gives it an INSUFFICIENT DATA
\* record and leaves every other ticker's task and record as they were;
\* a ticker not yet started can still start; a completed ticker's record is
\* the record of its own inputs, whatever failed; in the pick list a
\* failed ticker comes after every record with another verdict; the run
\* fails only on an unreadable universe.
C11_FailureStaysLocal ==
    /\ [][\A t \in Tickers :
            (task[t] = "running" /\ task'[t] = "failed") =>
                /\ records'[t].verdict = "INSUFFICIENT DATA"
                /\ phase' = phase
                /\ \A u \in Tickers \ {t} :
                      task'[u] = task[u] /\ records'[u] = records[u]]_vars
    /\ [](\A u \in Tickers :
            /\ (phase = "scatter" /\ task[u] = "pending") => ENABLED StartTask(u)
            /\ task[u] = "completed" => records[u] = ReportOf[metrics[u]])
    /\ [](phase = "done" =>
            \A t, u \in Tickers :
                (task[t] = "failed" /\ records[u].verdict # "INSUFFICIENT DATA")
                    => PickPosition(u) < PickPosition(t))
    /\ [](phase = "failed" => universe = "unreadable")

\* C11 witness: a finished run in which one ticker failed, listed last,
\* after a ticker that completed with a verdict of the matrix
C11_Witness ==
    /\ phase = "done"
    /\ \E t, u \in Tickers :
          /\ task[t] = "failed"
          /\ task[u] = "completed"
          /\ records[u].verdict = "STRONG BUY"
          /\ PickPosition(u) < PickPosition(t)

\* C12: under fair scheduling, with every started task ending, a run over
\* a readable universe reaches the end with a pick list that holds every
\* ticker exactly once and a record for each; no task that has ended is
\* run again, and nothing happens after the end.
C12_RunTerminates ==
    /\ (universe = "readable") ~>
          (/\ phase = "done"
           /\ Len(pickList) = NumTickers
           /\ {pickList[k] : k \in 1..Len(pickList)} = Tickers
           /\ \A t \in Tickers : records[t] # Idle)
    /\ [][\A t \in Tickers :
            task[t] \in {"completed", "failed"} =>
                task'[t] = task[t] /\ records'[t] = records[t]]_vars
    /\ [][phase # "done"]_vars

\* C12 witness: a finished run in which every task completed
C12_Witness ==
    /\ phase = "done"
    /\ \A t \in Tickers : task[t] = "completed"
    /\ Len(pickList) = NumTickers

(***************************************************************************)
(* Properties of the dashboard's listings.                                 *)
(***************************************************************************)
Listed == listing # Idle

\* row r is worse than row q on verdict priority ascending, then quality
\* score descending, then pad_mosee descending, nulls after values
WorseOnPickKey(r, q) ==
    \/ VERDICT_PRIORITY[r.verdict] > VERDICT_PRIORITY[q.verdict]
    \/ /\ VERDICT_PRIORITY[r.verdict] = VERDICT_PRIORITY[q.verdict]
       /\ \/ DescNullsLast(q.quality_score, r.quality_score)
          \/ /\ r.quality_score = q.quality_score
             /\ DescNullsLast(q.pad_mosee, r.pad_mosee)

\* C13 (as claimed): in every listing getTopPicks or getAllAnalyses
\* returns, the rows are those of the latest analysis date and of any two
\* adjacent rows the earlier one is not worse on the three-level key.
C13_ListingOrdered ==
    Listed =>
        /\ \A k \in 1..Len(listing.rows) : listing.rows[k] \in LatestRows(rows)
        /\ \A k \in 1..(Len(listing.rows) - 1) :
              ~WorseOnPickKey(listing.rows[k], listing.rows[k + 1])

\* The listings of getTopPicks alone are ordered on the three-level key.
TopPicksOrdered ==
    (Listed /\ listing.query = "getTopPicks") => C13_ListingOrdered

\* C14 (as claimed): in every listing, two adjacent rows that are equal on
\* verdict priority, quality score and pad_mosee appear in ticker order, and
\* a row that is cut off by the limit does not precede a listed row in the
\* key-then-ticker order.
C14_TiesInTickerOrder ==
    Listed =>
        /\ \A k \in 1..(Len(listing.rows) - 1) :
              LET r == listing.rows[k]
                  q == listing.rows[k + 1]
              IN  (~WorseOnPickKey(r, q) /\ ~WorseOnPickKey(q, r))
                      => r.ticker < q.ticker
        /\ \A q \in LatestRows(rows) :
              (\A k \in 1..Len(listing.rows) : listing.rows[k] # q) =>
                  \A k \in 1..Len(listing.rows) :
                      LET r == listing.rows[k]
                      IN  (~WorseOnPickKey(r, q) /\ ~WorseOnPickKey(q, r))
                              => r.ticker < q.ticker

(***************************************************************************)
(* Properties of the Magic Formula ranking.                                *)
(***************************************************************************)
CandidateSet == {candidates[i] : i \in 1..Len(candidates)}

\* the number of candidates ahead of c on a key, whatever the input order:
\* those with a higher value, and those with the same value and an earlier
\* ticker
Ahead(c, key) ==
    Cardinality({d \in CandidateSet :
                    \/ d[key] > c[key]
                    \/ d[key] = c[key] /\ d.ticker < c.ticker})

\* C15: every ticker's EY rank and ROC rank are its places in the universe
\* by earnings yield and by return on capital, highest first and equal
\* values in ticker order, the combined rank is their sum, and none of the
\* three depends on the order of the input list.
C15_MagicFormulaRank ==
    ranks # Idle =>
        \A c \in CandidateSet :
            LET r == ranks.of[c.ticker]
            IN  /\ r.ey_rank = 1 + Ahead(c, "earnings_yield")
                /\ r.roc_rank = 1 + Ahead(c, "return_on_capital")
                /\ r.combined_rank = r.ey_rank + r.roc_rank

\* C15 witness: an input list against ticker order whose first two
\* candidates tie on earnings yield, ranked in ticker order
C15_Witness ==
    /\ ranks # Idle
    /\ candidates[1].ticker > candidates[2].ticker
    /\ candidates[1].earnings_yield = candidates[2].earnings_yield
    /\ ranks.of[candidates[2].ticker].ey_rank
          < ranks.of[candidates[1].ticker].ey_rank

\* every QualityScore held in the state, with the weights it was made under
Scored ==
    IF score = Idle \/ score.status = "rejected" THEN {}
    ELSE IF score.status = "compared" THEN {score.by[n] : n \in InvestmentStyle}
    ELSE {score}

\* C16: the five lens weights of every style preset and of the default
\* composite are non-negative and add up to 100%, the default ones also to
\* exactly 1.0 as the doubles the formula writes; an override is scored only
\* when its weights add up to 100%, so every computed QualityScore was made
\* under weights that add up to 100%.
C16_WeightsSumToOne ==
    /\ \A n \in InvestmentStyle :
          /\ \A l \in Lenses : InvestmentStyles[n][l] >= 0
          /\ WeightTotal(InvestmentStyles[n]) = 100
    /\ \A l \in Lenses : DefaultWeights[l] >= 0
    /\ WeightTotal(DefaultWeights) = 100
    /\ (style # Idle /\ style.status = "default")
          => Fadd(Fadd(Fadd(Fadd(Hundredths(score.weights.graham),
                                 Hundredths(score.weights.buffett)),
                            Hundredths(score.weights.lynch)),
                       Hundredths(score.weights.greenblatt)),
                  Hundredths(score.weights.fisher)) = FromInt(1)
    /\ \A q \in Scored :
          /\ \A l \in Lenses : q.weights[l] >= 0
          /\ WeightTotal(q.weights) = 100
    /\ (style # Idle /\ style.status = "override")
          => (score.status = "scored" <=> WeightTotal(style.weights) = 100
                                          /\ \A l \in Lenses : style.weights[l] >= 0)

C16_Witness ==
    /\ style # Idle /\ style.status = "override"
    /\ score.status = "rejected"
    /\ WeightTotal(style.weights) = 150

AllLensesScore(s) == \A l \in Lenses : lens[l] = s

\* C18: every lens score lies in [0,100], the Graham lens giving its count
\* of criteria passed scaled linearly to 0-100; the total of every computed
\* QualityScore lies in [0,100]; and when all five lens scores are the same
\* score s, the total is s under every style.
C18_CompositeWithinScale ==
    /\ \A g \in GrahamScores : Fle(Zero, g) /\ Fle(g, FromInt(MaxScore))
    /\ \A q \in Scored :
          /\ \A l \in Lenses :
                Fle(Zero, q.breakdown[l]) /\ Fle(q.breakdown[l], FromInt(MaxScore))
          /\ Fle(Zero, q.total) /\ Fle(q.total, FromInt(MaxScore))
          /\ \A s \in LensValues : AllLensesScore(s) => q.total = s

\* the part of C18 that does hold: scores and totals stay within [0,100]
CompositeInRange ==
    /\ \A g \in GrahamScores : Fle(Zero, g) /\ Fle(g, FromInt(MaxScore))
    /\ \A q \in Scored : Fle(Zero, q.total) /\ Fle(q.total, FromInt(MaxScore))

\* the conservative values above the one of the input, where the ratio is defined
HigherConservative ==
    {c \in ConservativeValues : c # None /\ Val(c) > 0 /\ Val(c) > C}

\* C19: where the ratio is defined (conservative > 0, price >= 0), the
\* mos_ratio of a report is price / conservative as computed, at most the
\* ratio at the next higher price for the same conservative value, and at
\* least the ratio at the same price for every higher conservative value;
\* and if the gate is passed at the next higher price it is passed at this
\* one, so has_mos can only go from true to false as the price rises.
\* Comparing each price with the next one covers every pair of prices, the
\* order on doubles being transitive.
C19_MosRatioMonotonic ==
    (Returned /\ Available) =>
        /\ report.margin_of_safety = Some(Fdiv(P, C))
        /\ P < MaxPrice =>
              /\ Fle(Val(report.margin_of_safety),
                     margin_of_safety(Some(P + 1), inp.conservative).value)
              /\ is_buyable(Some(P + 1), inp.conservative, R).value
                    => report.has_margin_of_safety
        /\ \A c \in HigherConservative :
              Fle(margin_of_safety(inp.current_price, c).value,
                  Val(report.margin_of_safety))

C19_Witness ==
    /\ Returned /\ Available
    /\ P < MaxPrice
    /\ report.has_margin_of_safety
    /\ ~is_buyable(Some(P + 1), inp.conservative, R).value
    /\ HigherConservative # {}

\* C20: a report for a high-tier quality (>= 70) whose mos_ratio lies
\* strictly between 0.70 and 1.0 has has_mos false and verdict WATCHLIST; in
\* particular quality 85, conservative 120, price 100 gives a ratio of about
\* 0.833 (100 / 120 as computed), has_mos false and verdict WATCHLIST.
C20_HighQualityAboveGateIsWatchlist ==
    (Returned /\ Available /\ inp.quality >= HighQuality
        /\ 70 * C < 100 * P /\ P < C) =>
        /\ report.margin_of_safety = Some(Fdiv(P, C))
        /\ (P = 100 /\ C = 120) =>
              /\ Flt(Hundredths(83), Val(report.margin_of_safety))
              /\ Flt(Val(report.margin_of_safety), Hundredths(84))
        /\ ~report.has_margin_of_safety
        /\ report.verdict = InvestmentVerdict.WATCHLIST

\* C21: a report for a low-tier quality (< 50) whose mos_ratio lies in the
\* 0.7-1.0 band has verdict ACCUMULATE; in particular quality 35 with ratio
\* 0.9 gives ACCUMULATE, quality 35 with ratio 1.3 gives REDUCE and quality
\* 85 with ratio 0.45 gives STRONG_BUY.
C21_LowQualityNearValueIsAccumulate ==
    (Returned /\ Available) =>
        /\ (inp.quality < MediumQuality /\ 70 * C <= 100 * P /\ P < C)
              => report.verdict = InvestmentVerdict.ACCUMULATE
        /\ (inp.quality = 35 /\ 10 * P = 9 * C)
              => report.verdict = InvestmentVerdict.ACCUMULATE
        /\ (inp.quality = 35 /\ 10 * P = 13 * C)
              => report.verdict = InvestmentVerdict.REDUCE
        /\ (inp.quality = 85 /\ 100 * P = 45 * C)
              => report.verdict = InvestmentVerdict.STRONG_BUY

\* the two scenarios of C21 the matrix does satisfy
OtherScenariosHold ==
    (Returned /\ Available) =>
        /\ (inp.quality = 35 /\ 10 * P = 13 * C)
              => report.verdict = InvestmentVerdict.REDUCE
        /\ (inp.quality = 85 /\ 100 * P = 45 * C)
              => report.verdict = InvestmentVerdict.STRONG_BUY

\* C22: the record of a ticker in a run is created once, carrying that
\* ticker and the run's analysis date, and no step changes it afterwards:
\* not the gather step of its run, which only produces the pick list, and
\* not any step of another run, whose records are new ones under its own
\* analysis date.
C22_RecordsAreImmutable ==
    /\ [][\A r \in Runs, t \in Tickers :
            runs[r].records[t] # Idle => runs'[r].records[t] = runs[r].records[t]]_vars
    /\ [][\A r \in Runs :
            runs'[r].pickList # runs[r].pickList => runs'[r].records = runs[r].records]_vars
    /\ [](\A r \in Runs, t \in Tickers :
            /\ runs[r].records[t] # Idle
                  <=> runs[r].task[t] \in {"completed", "failed"}
            /\ runs[r].records[t] # Idle
                  => /\ runs[r].records[t].ticker = t
                     /\ runs[r].records[t].analysis_date = r)

C22_Witness ==
    /\ \A r \in Runs : runs[r].phase = "done"
    /\ \E t \in Tickers : runs[1].records[t].verdict # runs[2].records[t].verdict

\* C23: whatever the interleaving of the per-ticker tasks of the two runs,
\* and however many of them are running at once, the record of a completed
\* ticker is the engine's result on that ticker's metrics under the style
\* and required_mos of its own run, a failed ticker's record is the
\* INSUFFICIENT DATA record of its run, and a finished run's pick list is
\* the ranking of its own records: what the run gives when it runs alone.
C23_ResultsIndependentOfScheduling ==
    \A r \in Runs :
        /\ \A t \in Tickers :
              /\ runs[r].task[t] = "completed"
                    => runs[r].records[t]
                          = StockAnalysisRecord(t, r, RunUniverse[t], runs[r].config)
              /\ runs[r].task[t] = "failed"
                    => runs[r].records[t] = FailedAnalysisRecord(t, r, runs[r].config)
        /\ runs[r].phase = "done" => runs[r].pickList = RankPicks(runs[r].records)

C23_Witness ==
    /\ runs[1].phase = "scatter" /\ runs[2].phase = "scatter"
    /\ runs[1].config # runs[2].config
    /\ \E t, u \in Tickers :
          /\ t # u
          /\ runs[1].task[t] = "running" /\ runs[2].task[t] = "completed"
          /\ runs[1].task[u] = "completed" /\ runs[2].task[u] = "running"
          /\ runs[1].records[u].verdict # runs[2].records[t].verdict

\* the number of the seven defensive criteria the metrics pass when the
\* Graham Number check is left out
PassedWithoutGrahamNumber(m) ==
    m.others_passed + (IF m.eps > 0 /\ m.price <= 15 * m.eps THEN 1 ELSE 0)
                    + (IF m.bvps > 0 /\ 2 * m.price <= 3 * m.bvps THEN 1 ELSE 0)

GreatestDate == CHOOSE d \in {r.analysis_date : r \in rows} :
                    \A r \in rows : r.analysis_date <= d

ListedRows == {listing.rows[k] : k \in 1..Len(listing.rows)}

\* C26: every row a listing returns is a stored row whose analysis_date is
\* the greatest one stored, so rows of earlier runs never appear and every
\* row has the date the Picks page shows in its header; getAllAnalyses
\* returns each of those rows once; getTopPicks(limit) returns limit of
\* them, each once, or all of them when they are fewer than limit.
C26_ListingsShowLatestRun ==
    Listed =>
        LET latest == {r \in rows : r.analysis_date = GreatestDate}
            n      == Len(listing.rows)
        IN  /\ ListedRows \subseteq rows
            /\ \A r \in ListedRows :
                  /\ r.analysis_date = GreatestDate
                  /\ PicksHeaderDate(listing.rows) = Some(r.analysis_date)
            /\ Cardinality(ListedRows) = n
            /\ listing.query = "getAllAnalyses" => ListedRows = latest
            /\ listing.query = "getTopPicks" =>
                  n = (IF Cardinality(latest) < Val(listing.limit)
                       THEN Cardinality(latest) ELSE Val(listing.limit))

C26_Witness ==
    /\ Listed /\ listing.query = "getTopPicks"
    /\ \E r \in rows : r.analysis_date < GreatestDate
    /\ Len(listing.rows) = Val(listing.limit)
    /\ Cardinality({r \in rows : r.analysis_date = GreatestDate}) > Val(listing.limit)

\* the list of records the Home or the Picks page holds
PagePicks ==
    IF view.status = "home" THEN view.topPicks
    ELSE IF view.status = "picks" THEN view.picks ELSE <<>>

\* C25: VERDICT_PRIORITY and the CASE expression of the two queries give
\* each of the nine verdicts the same number, the assignment is a bijection
\* onto 1..9 from STRONG BUY = 1 to INSUFFICIENT DATA = 9, a stored verdict
\* outside the enumeration gets 9, and in every list a page receives the
\* rows are in non-decreasing order of that number, so INSUFFICIENT DATA
\* and unknown verdicts come after every other verdict.
C25_PriorityTablesAgree ==
    /\ \A v \in Verdict : VERDICT_PRIORITY[v] = VerdictCase(v)
    /\ Cardinality(Verdict) = Cardinality({VerdictCase(v) : v \in Verdict})
    /\ {VerdictCase(v) : v \in Verdict} = 1..Cardinality(Verdict)
    /\ VerdictCase("STRONG BUY") = 1
    /\ \A v \in Verdict \ {"INSUFFICIENT DATA"} :
          VerdictCase(v) < VerdictCase("INSUFFICIENT DATA")
    /\ LegacyVerdict \notin Verdict
    /\ VerdictCase(LegacyVerdict) = VerdictCase("INSUFFICIENT DATA")
    /\ \A i, j \in 1..Len(PagePicks) :
          i < j =>
            /\ VerdictCase(PagePicks[i].verdict) <= VerdictCase(PagePicks[j].verdict)
            /\ PagePicks[i].verdict \in {"INSUFFICIENT DATA", LegacyVerdict}
                  => PagePicks[j].verdict \in {"INSUFFICIENT DATA", LegacyVerdict}

C25_Witness ==
    /\ view.status = "picks"
    /\ Len(view.picks) > 2
    /\ view.picks[1].verdict = "STRONG BUY"
    /\ view.picks[2].verdict = LegacyVerdict
    /\ view.picks[3].verdict = "INSUFFICIENT DATA"

\* the stored records of the ticker a request names, in whatever case
RecordsNamed(param) == {r \in db : r.ticker.name = param.name}

\* C27: getStockAnalysis answers a request in any case with the stored
\* record of that ticker that has the greatest analysis_date, or with null
\* when there is none; the detail page is not-found exactly when it holds
\* null (the query returned null or threw), and otherwise shows the record
\* with each of perspectives, strengths, concerns and action_items as
\* stored, or as the empty list when the column is missing.
C27_DetailPageNotFoundOrRendered ==
    [][view.status = "detail" =>
        /\ (view.pc = "getStockAnalysis" /\ view'.pc = "render") =>
              IF view'.threw \/ RecordsNamed(view.ticker) = {}
              THEN view'.stock = None
              ELSE /\ view'.stock # None
                   /\ Val(view'.stock) \in RecordsNamed(view.ticker)
                   /\ \A r \in RecordsNamed(view.ticker) :
                         r.analysis_date <= Val(view'.stock).analysis_date
        /\ (view.pc = "render" /\ view'.pc = "done") =>
              /\ view'.shown # None
              /\ Val(view'.shown).page = "notFound" <=> view.stock = None
              /\ view.stock # None =>
                    LET stock == Val(view.stock)
                        page  == Val(view'.shown)
                        Shown(list, column) ==
                            IF column = None THEN list = <<>>
                            ELSE list = Val(column)
                    IN  /\ Shown(page.perspectives, stock.perspectives)
                        /\ Shown(page.strengths, stock.strengths)
                        /\ Shown(page.concerns, stock.concerns)
                        /\ Shown(page.actionItems, stock.action_items)]_vars

C27_Witness ==
    /\ view.status = "detail" /\ view.pc = "done"
    /\ view.ticker.case = "lower"
    /\ Cardinality(RecordsNamed(view.ticker)) > 1
    /\ Val(view.shown).page = "stock"
    /\ Val(view.shown).strengths # <<>>

\* the page shows a record whose list columns are missing
C27_MissingListsShown ==
    /\ view.status = "detail" /\ view.pc = "done"
    /\ Val(view.shown).page = "stock"
    /\ Val(view.shown).strengths = <<>>

\* C28: a query that throws while the Home or the Picks page loads leaves
\* the page on its way to rendering, with the values fetched before the
\* failure kept and the others at their default (empty list, null stats);
\* an empty list renders as 'No Analysis Data Yet' on Home and as 'No stock
\* analyses found' on Picks, null stats hide the stats block, and
\* getAnalysisStats returns null exactly when the table holds no record.
C28_DatabaseErrorsAreAbsorbed ==
    [][/\ view.status = "home" =>
            /\ view'.status = "home"
            /\ view'.threw => view'.pc \in {"render", "done"}
            /\ (view.pc = "getTopPicks" /\ view'.threw) =>
                  view'.topPicks = <<>> /\ view'.stats = None
            /\ view.pc = "getAnalysisStats" =>
                  /\ view'.topPicks = view.topPicks
                  /\ view'.threw => view'.stats = None
                  /\ (view'.pc = "render" /\ ~view'.threw) =>
                        (view'.stats = None <=> db = {})
            /\ (view.pc = "render" /\ view'.pc = "done") =>
                  /\ view'.topPicks = view.topPicks
                  /\ Val(view'.shown).picks = "No Analysis Data Yet"
                        <=> view.topPicks = <<>>
                  /\ Val(view'.shown).statsBlock = None <=> view.stats = None
       /\ view.status = "picks" =>
            /\ view'.status = "picks"
            /\ view'.threw => view'.pc \in {"render", "done"}
            /\ (view.pc = "getAllAnalyses" /\ view'.threw) => view'.picks = <<>>
            /\ (view.pc = "render" /\ view'.pc = "done") =>
                  /\ view'.picks = view.picks
                  /\ Val(view'.shown).table = "No stock analyses found"
                        <=> view.picks = <<>>]_vars

C28_Witness ==
    /\ view.status = "home" /\ view.pc = "done"
    /\ view.threw
    /\ view.topPicks # <<>>
    /\ view.stats = None
    /\ Val(view.shown).picks = "cards"
    /\ Val(view.shown).statsBlock = None

\* the Picks page renders its empty state after a failed query on a
\* table that holds records
C28_PicksEmptyState ==
    /\ view.status = "picks" /\ view.pc = "done"
    /\ view.threw /\ db # {}
    /\ Val(view.shown).table = "No stock analyses found"

\* the Home page has both of its values from queries that succeeded
HomeLoaded ==
    /\ view.status = "home" /\ view.pc \in {"render", "done"}
    /\ ~view.threw

\* C29 (as claimed): when the Home page has loaded, its picks and its stats
\* describe the same analysis date: with stats present every pick has the
\* analysisDate of the stats, there are no more picks than totalAnalyzed,
\* and buyCount is at most totalAnalyzed; with no stats there are no picks.
C29_HomeStatsMatchPicks ==
    HomeLoaded =>
        IF view.stats = None THEN view.topPicks = <<>>
        ELSE /\ \A k \in 1..Len(view.topPicks) :
                   Some(view.topPicks[k].analysis_date) = Val(view.stats).analysisDate
             /\ Len(view.topPicks) <= Val(view.stats).totalAnalyzed
             /\ Val(view.stats).buyCount <= Val(view.stats).totalAnalyzed

\* C29 (what holds): the stats alone are consistent, and the picks alone
\* share one date that is not later than the date of the stats.
C29_StatsAndPicksEachConsistent ==
    HomeLoaded =>
        /\ view.stats # None =>
              /\ Val(view.stats).buyCount <= Val(view.stats).totalAnalyzed
              /\ \A k \in 1..Len(view.topPicks) :
                    Val(Val(view.stats).analysisDate) >= view.topPicks[k].analysis_date
        /\ \A i, j \in 1..Len(view.topPicks) :
              view.topPicks[i].analysis_date = view.topPicks[j].analysis_date

MarkerRendered ==
    /\ view.status = "bar" /\ view.pc = "done"
    /\ view.marker # None

\* C30 (as claimed): a rendered current-price marker stands at a defined
\* number between 0 and 100 percent, at 0 when the price is at or below the
\* conservative value and at 100 when it is at or above the optimistic
\* value, also when the optimistic value equals the conservative one.
C30_MarkerWithinBar ==
    MarkerRendered =>
        LET left         == Val(view.marker)
            price        == Val(view.stock.current_price)
            conservative == Val(view.stock.valuation_conservative)
            optimistic   == Val(view.stock.valuation_optimistic)
        IN  /\ left # NaN
            /\ ~IsInfinite(left)
            /\ Fle(Zero, left) /\ Fle(left, FromInt(FullWidth))
            /\ (price <= conservative /\ conservative < optimistic) => left = Zero
            /\ (price < conservative) => left = Zero
            /\ (price >= optimistic /\ conservative < optimistic)
                  => left = FromInt(FullWidth)
            /\ (price > optimistic) => left = FromInt(FullWidth)

\* C30 (what holds): the marker is a number in [0, 100] whenever the price
\* differs from an empty range's single value or the range is not empty.
C30_MarkerWithinBarUnlessDegenerate ==
    MarkerRendered =>
        LET left         == Val(view.marker)
            price        == Val(view.stock.current_price)
            conservative == Val(view.stock.valuation_conservative)
            optimistic   == Val(view.stock.valuation_optimistic)
        IN  IF price = conservative /\ conservative = optimistic
            THEN left = NaN
            ELSE /\ left # NaN /\ ~IsInfinite(left)
                 /\ Fle(Zero, left) /\ Fle(left, FromInt(FullWidth))
                 /\ price <= conservative => left = Zero
                 /\ price >= optimistic => left = FromInt(FullWidth)

====
